---- MODULE Spec2Model ----
(***************************************************************************)
(* Verification model of the ai-crawler orchestration core:                *)
(*   - BaseCrawler.crawl_with_retry          (crawlers/base.py)            *)
(*   - MultiEngineCrawler.crawl_with_strategy (crawlers/multi_engine.py)   *)
(*   - the bulk workers of POST /crawl/bulk and of the unified route       *)
(*     (api/routes.py) together with the Progress Hub (api/websocket.py)   *)
(* Text (URLs, error messages) is modelled as sequences of one-character   *)
(* strings so that lower-casing, substring tests and URL parsing are       *)
(* computed, not assumed.                                                  *)
(***************************************************************************)
EXTENDS Integers, Sequences, FiniteSets, TLC

\* ------------------------------------------------------------------ bounds
\* largest max_retries of a caller-supplied strategy
MaxRetriesBound == 3
\* largest number of URLs of a bulk job
MaxUrls == 5
\* largest number of URLs of a bulk job that WebSocket clients watch
MaxWatchedUrls == 3
\* largest max_concurrent a POST /crawl/bulk request asks for
MaxConcurrent == 2
\* number of WebSocket clients
MaxConns == 1
\* WebSocket clients of the hub on its own
MaxHubConns == 2
\* datetime.now() is counted in ticks; the clock runs up to MaxClock ticks
TicksPerSecond == 2
MaxClock == 3
\* bulk requests accepted in one run
MaxRequests == 3

\* ------------------------------------------------------- text primitives
UpperChars == <<"A","B","C","D","E","F","G","H","I","J","K","L","M",
                "N","O","P","Q","R","S","T","U","V","W","X","Y","Z">>
LowerChars == <<"a","b","c","d","e","f","g","h","i","j","k","l","m",
                "n","o","p","q","r","s","t","u","v","w","x","y","z">>
DigitChars == <<"0","1","2","3","4","5","6","7","8","9">>

Range(s) == { s[i] : i \in 1..Len(s) }

\* str.lower() on one character
LowerChar(c) ==
    IF c \in Range(UpperChars)
    THEN LowerChars[CHOOSE i \in 1..Len(UpperChars) : UpperChars[i] = c]
    ELSE c

\* str.lower()
Lower(s) == [i \in 1..Len(s) |-> LowerChar(s[i])]

\* Python's  sub in s  for str
Contains(s, sub) ==
    \E i \in 0..(Len(s) - Len(sub)) :
        \A j \in 1..Len(sub) : s[i + j] = sub[j]

\* s[a:b] with 1-based inclusive bounds, empty when a > b
Slice(s, a, b) == IF a > b THEN <<>> ELSE SubSeq(s, a, b)

\* first index of a character of set cs in s at or after position from, 0 if none
FindFrom(s, cs, from) ==
    IF \E i \in from..Len(s) : s[i] \in cs
    THEN CHOOSE i \in from..Len(s) :
            s[i] \in cs /\ \A k \in from..(i - 1) : s[k] \notin cs
    ELSE 0

\* str.strip() for the blank character
RECURSIVE LStrip(_)
LStrip(s) == IF s # <<>> /\ Head(s) = " " THEN LStrip(Tail(s)) ELSE s
RECURSIVE RStrip(_)
RStrip(s) == IF s # <<>> /\ s[Len(s)] = " " THEN RStrip(SubSeq(s, 1, Len(s) - 1)) ELSE s
Strip(s) == RStrip(LStrip(s))

\* Python None, and str(x) of an Optional[str]
None == <<"<None>">>
Str(x) == IF x = None THEN <<"N","o","n","e">> ELSE x

\* ------------------------------------------------------ URL validation
AlphaChars == Range(UpperChars) \cup Range(LowerChars)
AlnumChars == AlphaChars \cup Range(DigitChars)
SchemeChars == AlnumChars \cup {"+", "-", "."}

\* urllib.parse.urlsplit: position of the ':' that ends a scheme, 0 if the
\* text has no scheme
SchemeEnd(u) ==
    LET i == FindFrom(u, {":"}, 1)
    IN  IF i > 1 /\ u[1] \in AlphaChars /\ (\A k \in 1..(i - 1) : u[k] \in SchemeChars)
        THEN i ELSE 0

\* urlparse(u).scheme (urlsplit lower-cases it)
UrlScheme(u) == IF SchemeEnd(u) = 0 THEN <<>> ELSE Lower(SubSeq(u, 1, SchemeEnd(u) - 1))

\* urlparse(u).netloc: the text after "//" up to the first of "/", "?", "#"
UrlNetloc(u) ==
    LET r == Slice(u, SchemeEnd(u) + 1, Len(u))
    IN  IF Len(r) >= 2 /\ r[1] = "/" /\ r[2] = "/"
        THEN LET d == FindFrom(r, {"/", "?", "#"}, 3)
             IN  IF d = 0 THEN Slice(r, 3, Len(r)) ELSE Slice(r, 3, d - 1)
        ELSE <<>>

\* netloc.split(':')[0]
HostOf(netloc) ==
    LET c == FindFrom(netloc, {":"}, 1)
    IN  IF c = 0 THEN netloc ELSE Slice(netloc, 1, c - 1)

\* one label of domain_pattern: [a-zA-Z0-9]([a-zA-Z0-9\-]{0,61}[a-zA-Z0-9])?
LabelMatches(l) ==
    /\ Len(l) >= 1 /\ Len(l) <= 63
    /\ l[1] \in AlnumChars /\ l[Len(l)] \in AlnumChars
    /\ \A k \in 1..Len(l) : l[k] \in AlnumChars \cup {"-"}

\* re.match(domain_pattern, host): labels separated by single dots
RECURSIVE DomainMatches(_)
DomainMatches(h) ==
    LET d == FindFrom(h, {"."}, 1)
    IN  IF d = 0 THEN LabelMatches(h)
        ELSE LabelMatches(Slice(h, 1, d - 1)) /\ DomainMatches(Slice(h, d + 1, Len(h)))

known_issues == <<
    <<"l","i","n","e","C","o","m","b","O","r","d","e","r","/","l","i","n","e","C","o","m","b","L","i","s","t",".","d","o">>,
    <<"j","a","v","a","s","c","r","i","p","t",":">>,
    <<"m","a","i","l","t","o",":">>,
    <<"#">>
>>

\* MultiEngineCrawler._validate_url: [ok, msg]; the messages are Korean
\* sentences, modelled as one opaque non-empty token each
_validate_url(url) ==
    IF url = <<>> THEN [ok |-> FALSE, msg |-> <<"[url empty]">>]
    ELSE LET u == Strip(url) IN
         IF UrlScheme(u) \notin {<<"h","t","t","p">>, <<"h","t","t","p","s">>}
         THEN [ok |-> FALSE, msg |-> <<"[unsupported scheme]">>]
         ELSE IF UrlNetloc(u) = <<>>
         THEN [ok |-> FALSE, msg |-> <<"[no domain]">>]
         ELSE IF ~DomainMatches(HostOf(UrlNetloc(u)))
         THEN [ok |-> FALSE, msg |-> <<"[bad domain format]">>]
         ELSE IF \E k \in 1..Len(known_issues) : Contains(url, known_issues[k])
         THEN [ok |-> FALSE, msg |-> <<"[known issue pattern]">>]
         ELSE [ok |-> TRUE, msg |-> <<"[valid url]">>]

UrlPlain == <<"h","t","t","p",":","/","/","a",".","b">>
UrlSpa == <<"h","t","t","p","s",":","/","/","s","p","a",".","i","o">>
UrlFtp == <<"f","t","p",":","/","/","a",".","b">>
UrlNoHost == <<"h","t","t","p",":","/","/">>
UrlBadHost == <<"h","t","t","p",":","/","/","-","a">>
UrlAnchor == <<"h","t","t","p",":","/","/","a",".","b","/","#","x">>
UrlEmpty == <<>>
UrlUpper == <<"H","T","T","P",":","/","/","A",".","b">>
UrlBare == <<"a",".","b">>
UrlPadded == <<" ","h","t","t","p",":","/","/","a",".","b">>
UrlMailto == <<"m","a","i","l","t","o",":","a">>

\* URLs a caller may pass to crawl_with_strategy
Urls == {UrlPlain, UrlSpa, UrlFtp, UrlNoHost, UrlBadHost, UrlAnchor, UrlEmpty, UrlUpper, UrlBare, UrlPadded, UrlMailto}

\* ------------------------------------------------------- error messages
Err404 == <<"H","T","T","P"," ","4","0","4",":"," ","N","o","t"," ","F","o","u","n","d">>
ErrForbidden == <<"F","o","r","b","i","d","d","e","n">>
ErrDns == <<"D","N","S"," ","l","o","o","k","u","p"," ","f","a","i","l","e","d">>
Err503 == <<"H","T","T","P"," ","5","0","3">>
ErrReset == <<"C","o","n","n","e","c","t","i","o","n"," ","r","e","s","e","t">>
ErrEmpty == <<>>

\* str(e) of the exceptions a fetch can end with ("" is str(e) of an
\* exception constructed without arguments, e.g. asyncio.TimeoutError())
ErrorMessages == {Err404, ErrForbidden, ErrDns, Err503, ErrReset, ErrEmpty}

\* RuntimeError raised by an adapter's crawl when the adapter is not
\* initialised ("<name> 엔진이 초기화되지 않았습니다"), non-ASCII part opaque
ErrEngineNotInitialized == <<"[engine not initialised]">>
\* TypeError of range(None)
ErrRangeTypeError == <<"[TypeError: NoneType cannot be interpreted as an integer]">>

permanent_errors == <<
    <<"4","0","4">>,
    <<"n","o","t"," ","f","o","u","n","d">>,
    <<"4","0","3">>,
    <<"f","o","r","b","i","d","d","e","n">>,
    <<"d","n","s">>,
    <<"n","a","m","e"," ","r","e","s","o","l","u","t","i","o","n"," ","f","a","i","l","e","d">>,
    <<"c","o","n","n","e","c","t","i","o","n"," ","r","e","f","u","s","e","d">>,
    <<"i","n","v","a","l","i","d"," ","u","r","l">>,
    <<"m","a","l","f","o","r","m","e","d"," ","u","r","l">>,
    <<"s","s","l"," ","c","e","r","t","i","f","i","c","a","t","e">>,
    <<"c","e","r","t","i","f","i","c","a","t","e"," ","v","e","r","i","f","y"," ","f","a","i","l","e","d">>
>>

\* is_permanent without the lower-casing of the message
is_permanent_case_sensitive(error_msg) ==
    \E k \in 1..Len(permanent_errors) : Contains(error_msg, permanent_errors[k])

\* base.py: is_permanent = any(err in str(e).lower() for err in permanent_errors)
is_permanent(error_msg) ==
    \E k \in 1..Len(permanent_errors) : Contains(Lower(error_msg), permanent_errors[k])

\* ------------------------------------------------- results and strategies
\* CrawlResult (base.py); metadata keys that a result does not carry are None
NoMeta == [crawler_used |-> "", attempted_engines |-> None,
           successful_engine_index |-> 0, total_available_engines |-> 0,
           engine_used |-> "", all_engines_failed |-> FALSE,
           validation_failed |-> FALSE, used_mcp_intelligence |-> FALSE,
           is_fallback |-> FALSE, analysis_method |-> "", confidence |-> <<>>,
           error |-> None]

CrawlResult(status, title, text, hierarchy, metadata, error) ==
    [status |-> status, title |-> title, text |-> text,
     hierarchy |-> hierarchy, metadata |-> metadata, error |-> error]

\* placeholder of "no result yet"
NoResult == CrawlResult("none", "", "", {}, NoMeta, None)

\* a failed result as every failure path constructs it
FailedResult(metadata, error) == CrawlResult("failed", "", "", {}, metadata, error)

\* CrawlStrategy (base.py); retries_is_int = FALSE models max_retries = None
CrawlStrategy(engine_priority, max_retries, retries_is_int, wait_time) ==
    [engine_priority |-> engine_priority, max_retries |-> max_retries,
     retries_is_int |-> retries_is_int, wait_time |-> wait_time]

NoStrategy == CrawlStrategy(<<>>, 0, TRUE, 0)

\* the engines initialize() registers, in dict order
EngineNames == <<"requests", "firecrawl", "crawl4ai", "playwright">>

\* MultiEngineCrawler.crawler_strategies
crawler_strategies ==
    [complex_spa |-> [primary |-> "crawl4ai",
                      fallback |-> <<"firecrawl", "playwright", "requests">>],
     ai_analysis_needed |-> [primary |-> "crawl4ai",
                      fallback |-> <<"firecrawl", "playwright", "requests">>],
     anti_bot_heavy |-> [primary |-> "playwright",
                      fallback |-> <<"firecrawl", "crawl4ai", "requests">>],
     standard_dynamic |-> [primary |-> "playwright",
                      fallback |-> <<"crawl4ai", "firecrawl", "requests">>],
     simple_static |-> [primary |-> "requests",
                      fallback |-> <<"crawl4ai", "firecrawl", "playwright">>]]

spa_keywords == <<
    <<"r","e","a","c","t",".","d","e","v">>,
    <<"v","u","e">>,
    <<"a","n","g","u","l","a","r">>,
    <<"s","p","a">>
>>
shopping_keywords == <<
    <<"s","h","o","p",".","k","t",".","c","o","m">>,
    <<"s","h","o","p","p","i","n","g">>,
    <<"e","c","o","m","m","e","r","c","e">>,
    <<"s","t","o","r","e">>
>>
security_keywords == <<
    <<"c","l","o","u","d","f","l","a","r","e">>,
    <<"p","r","o","t","e","c","t","e","d">>,
    <<"s","e","c","u","r","e">>
>>
dynamic_keywords == <<
    <<"d","y","n","a","m","i","c">>,
    <<"a","p","p">>,
    <<"p","o","r","t","a","l">>
>>

AnyKeyword(domain, keywords) ==
    \E k \in 1..Len(keywords) : Contains(domain, keywords[k])

\* the analysis an orchestrator call works with; confidence is the value of
\* the key crawling_strategy["confidence"] in hundredths, <<>> when the key
\* is missing
Analysis(is_fallback, recommended_engine, fallback_engines, strategy_type, confidence) ==
    [present |-> TRUE, is_fallback |-> is_fallback,
     recommended_engine |-> recommended_engine,
     fallback_engines |-> fallback_engines, strategy_type |-> strategy_type,
     confidence |-> confidence]

NoAnalysis == [present |-> FALSE, is_fallback |-> FALSE, recommended_engine |-> "",
               fallback_engines |-> <<>>, strategy_type |-> "", confidence |-> <<>>]

\* MultiEngineCrawler._get_fallback_strategy
_get_fallback_strategy(url) ==
    LET domain == Lower(url)
        strategy_type ==
            IF AnyKeyword(domain, spa_keywords) THEN "complex_spa"
            ELSE IF AnyKeyword(domain, shopping_keywords) THEN "ai_analysis_needed"
            ELSE IF AnyKeyword(domain, security_keywords) THEN "anti_bot_heavy"
            ELSE IF AnyKeyword(domain, dynamic_keywords) THEN "standard_dynamic"
            ELSE "simple_static"
        config == crawler_strategies[strategy_type]
    IN  Analysis(TRUE, config.primary, config.fallback, strategy_type, <<>>)

\* what the analyzer's detectors measure on a sample page: the number of
\* <script> tags, whether a framework pattern matches, whether the page
\* carries data-reactroot or __NEXT_DATA__, whether it has little text in a
\* large DOM, the number of JavaScript pattern matches and the number of
\* anti-bot indicators
Html(script_tags, framework, reactroot, sparse_dom, js_patterns, anti_bot_indicators) ==
    [script_tags |-> script_tags, framework |-> framework, reactroot |-> reactroot,
     sparse_dom |-> sparse_dom, js_patterns |-> js_patterns,
     anti_bot_indicators |-> anti_bot_indicators]

\* the empty string as a sample page
EmptyHtml == Html(0, FALSE, FALSE, FALSE, 0, 0)

\* sample pages a site answers the analyzer's fetch with
SamplePages ==
    {Html(2, FALSE, FALSE, FALSE, 3, 0),
     Html(4, TRUE, FALSE, FALSE, 5, 0),
     Html(12, TRUE, TRUE, TRUE, 8, 1),
     Html(12, TRUE, TRUE, FALSE, 8, 2),
     Html(3, FALSE, FALSE, FALSE, 30, 0),
     Html(3, FALSE, FALSE, FALSE, 30, 2),
     Html(1, FALSE, FALSE, FALSE, 0, 3)}

\* how the analyzer's GET of the sample page ends
SampleResponse(kind, html) == [kind |-> kind, html |-> html]
SampleResponses ==
    {SampleResponse("ok", h) : h \in SamplePages}
        \cup {SampleResponse(k, EmptyHtml) : k \in {"http_403", "http_404", "network_error"}}

\* SiteAnalyzer._fetch_sample_html: the text of the page, or "" when the
\* request failed in any way
_fetch_sample_html(response) == IF response.kind = "ok" THEN response.html ELSE EmptyHtml

\* SiteAnalyzer._detect_site_type: site_type["type"]
_detect_site_type(html) ==
    LET spa_score == (IF html.script_tags > 10 THEN 30 ELSE 0)
                     + (IF html.framework THEN 40 ELSE 0)
                     + (IF html.reactroot THEN 50 ELSE 0)
                     + (IF html.sparse_dom THEN 30 ELSE 0)
    IN  IF spa_score >= 70 THEN "complex_spa"
        ELSE IF spa_score >= 40 THEN "standard_dynamic"
        ELSE "simple_static"

\* SiteAnalyzer._analyze_javascript_complexity: javascript_complexity["level"]
_analyze_javascript_complexity(html) ==
    LET complexity_score == html.js_patterns * 2
    IN  IF complexity_score > 100 THEN "very_high"
        ELSE IF complexity_score > 50 THEN "high"
        ELSE IF complexity_score > 20 THEN "medium"
        ELSE "low"

\* SiteAnalyzer._detect_anti_bot_systems: risk_score and risk_level
_detect_anti_bot_systems(html) ==
    LET risk_score == html.anti_bot_indicators * 25
    IN  [risk_score |-> risk_score,
         risk_level |-> IF risk_score >= 75 THEN "very_high"
                        ELSE IF risk_score >= 50 THEN "high"
                        ELSE IF risk_score >= 25 THEN "medium"
                        ELSE "low"]

\* SiteAnalyzer._select_optimal_crawler (mcp-server), forwarded unchanged by
\* generate_strategy as crawling_strategy.recommended_engine /
\* fallback_engines / confidence
_select_optimal_crawler(site_type, js_complexity, anti_bot_risk, risk_score) ==
    IF anti_bot_risk \in {"high", "very_high"}
    THEN Analysis(FALSE, "firecrawl", <<"playwright", "crawl4ai", "requests">>,
                  site_type, <<80>>)
    ELSE IF site_type = "complex_spa" \/ js_complexity \in {"high", "very_high"}
    THEN IF risk_score > 25
         THEN Analysis(FALSE, "firecrawl", <<"crawl4ai", "playwright", "requests">>,
                       site_type, <<90>>)
         ELSE Analysis(FALSE, "crawl4ai", <<"firecrawl", "playwright", "requests">>,
                       site_type, <<90>>)
    ELSE IF site_type = "standard_dynamic"
    THEN Analysis(FALSE, "playwright", <<"crawl4ai", "firecrawl", "requests">>,
                  site_type, <<85>>)
    ELSE Analysis(FALSE, "requests", <<"playwright", "firecrawl">>, site_type, <<75>>)

\* SiteAnalyzer.analyze_and_select on a sample page
analyze_and_select(sample_html) ==
    _select_optimal_crawler(_detect_site_type(sample_html),
                            _analyze_javascript_complexity(sample_html),
                            _detect_anti_bot_systems(sample_html).risk_level,
                            _detect_anti_bot_systems(sample_html).risk_score)

\* the analyses the MCP analyzer can answer with
AnalyzerOutputs ==
    { analyze_and_select(_fetch_sample_html(r)) : r \in SampleResponses }

\* [x for x in s if x in S]  /  [x for x in s if x not in S]
Keep(s, S) == LET In(x) == x \in S IN SelectSeq(s, In)
Drop(s, S) == LET Out(x) == x \notin S IN SelectSeq(s, Out)

\* BuildStrategy without the restriction to the registry
BuildStrategy_unfiltered(analysis, registry) ==
    CrawlStrategy(<<analysis.recommended_engine>>
                      \o Drop(analysis.fallback_engines, {analysis.recommended_engine}),
                  3, TRUE, 1)

\* crawl_with_strategy, lines 421-457: the strategy built from an analysis
\* for a registry (a sequence of names in registration order)
BuildStrategy(analysis, registry) ==
    LET engine_priority == <<analysis.recommended_engine>>
                           \o Drop(analysis.fallback_engines, {analysis.recommended_engine})
        available_engines == Keep(engine_priority, Range(registry))
    IN  CrawlStrategy(IF available_engines = <<>> THEN registry ELSE available_engines,
                      3, TRUE, 1)

\* MultiEngineCrawler.get_strategy_config for a registry (names in
\* registration order)
get_strategy_config(strategy_type, registry) ==
    LET known == IF strategy_type \notin DOMAIN crawler_strategies
                 THEN "simple_static" ELSE strategy_type
        config == crawler_strategies[known]
        available_engines == Keep(<<config.primary>> \o config.fallback, Range(registry))
    IN  CrawlStrategy(IF available_engines = <<>> THEN registry ELSE available_engines,
                      3, TRUE, 1)

\* strategy types a caller may ask get_strategy_config for
StrategyTypes == DOMAIN crawler_strategies \cup {"news_portal", ""}

\* ---------------------------------------------------------- engine crawl
\* what one fetch inside an engine's crawl ends with
Fetch(kind, msg) == [kind |-> kind, msg |-> msg]
FetchOutcomes ==
    {Fetch("ok", <<>>), Fetch("timeout", <<>>)}
        \cup {Fetch("error", m) : m \in ErrorMessages}

\* outcome of a call: a returned CrawlResult or a raised exception (its str)
Returned(r) == [raised |-> FALSE, msg |-> None, result |-> r]
Raised(m) == [raised |-> TRUE, msg |-> m, result |-> NoResult]

CompleteResult(name) ==
    CrawlResult("complete", "title", "text", {"depth1"},
                [NoMeta EXCEPT !.crawler_used = name], None)

\* error text of the adapters' except branches: RequestsEngine formats a
\* timeout itself, PlaywrightEngine prefixes it, the others use str(e)
\* (str(asyncio.TimeoutError()) is the empty string)
AdapterErrorText(name, fetch) ==
    IF fetch.kind = "timeout" /\ name = "requests" THEN <<"[connect timeout]">>
    ELSE IF fetch.kind = "timeout" /\ name = "playwright"
    THEN <<"[page load timeout]: ">> \o <<"T","i","m","e","o","u","t">>
    ELSE fetch.msg

\* crawl of the four shipped adapters: raises only when the adapter is not
\* initialised, otherwise converts a failed fetch into a failed CrawlResult
AdapterCrawl(name, ready, fetch) ==
    IF name \notin ready THEN Raised(ErrEngineNotInitialized)
    ELSE IF fetch.kind = "ok" THEN Returned(CompleteResult(name))
    ELSE Returned(FailedResult([NoMeta EXCEPT !.crawler_used = name],
                               AdapterErrorText(name, fetch)))

\* crawl of a BaseCrawler subclass that lets the fetch exception propagate
\* (the abstract contract of BaseCrawler.crawl; "Engine stubbed to raise")
StubCrawl(fetch) ==
    IF fetch.kind = "ok" THEN Returned(CompleteResult("stub"))
    ELSE Raised(fetch.msg)

Crawl(name, ready, fetch) ==
    IF name = "stub" THEN StubCrawl(fetch) ELSE AdapterCrawl(name, ready, fetch)

\* base.py 136-147: the result after the retry loop ended without a return
ExhaustedResult(name, last) ==
    FailedResult([NoMeta EXCEPT !.crawler_used = name, !.error = Str(last)], Str(last))

\* ===================== natural-language parser (utils/natural_language_parser.py)
\* A request text is a sequence of characters; a Hangul syllable is written
\* as one bracketed token ("[je]", "[mok]" for the two syllables of the word
\* for "title"), which no ASCII pattern matches.

\* NaturalLanguageParser.content_type_patterns, in dict order: the keywords of
\* each content type; the first of them is the type name, the dict key
content_type_patterns == <<
    <<
        <<"[je]", "[mok]">>,
        <<"[ta]", "[i]", "[teul]">>,
        <<"t", "i", "t", "l", "e">>,
        <<"[he]", "[deu]", "[ra]", "[in]">>,
        <<"h", "e", "a", "d", "l", "i", "n", "e">> >>,
    <<
        <<"[ga]", "[gyeok]">>,
        <<"p", "r", "i", "c", "e">>,
        <<"[bi]", "[yong]">>,
        <<"c", "o", "s", "t">>,
        <<"[geum]", "[aek]">>,
        <<"[yo]", "[geum]">> >>,
    <<
        <<"[bon]", "[mun]">>,
        <<"[nae]", "[yong]">>,
        <<"c", "o", "n", "t", "e", "n", "t">>,
        <<"[geul]">>,
        <<"a", "r", "t", "i", "c", "l", "e">>,
        <<"[tek]", "[seu]", "[teu]">>,
        <<"t", "e", "x", "t">> >>,
    <<
        <<"[ri]", "[byu]">>,
        <<"r", "e", "v", "i", "e", "w">>,
        <<"[hu]", "[gi]">>,
        <<"[pyeong]", "[ga]">>,
        <<"[daet]", "[geul]">>,
        <<"c", "o", "m", "m", "e", "n", "t">> >>,
    <<
        <<"[yo]", "[yak]">>,
        <<"s", "u", "m", "m", "a", "r", "y">>,
        <<"[gae]", "[yo]">>,
        <<"[haek]", "[sim]">>,
        <<"[jeong]", "[ri]">> >>,
    <<
        <<"[i]", "[mi]", "[ji]">>,
        <<"i", "m", "a", "g", "e">>,
        <<"[sa]", "[jin]">>,
        <<"p", "h", "o", "t", "o">>,
        <<"[geu]", "[rim]">>,
        <<"p", "i", "c", "t", "u", "r", "e">> >>,
    <<
        <<"[ring]", "[keu]">>,
        <<"l", "i", "n", "k">>,
        <<"u", "r", "l">>,
        <<"[ju]", "[so]">> >>,
    <<
        <<"[nal]", "[jja]">>,
        <<"d", "a", "t", "e">>,
        <<"[si]", "[gan]">>,
        <<"t", "i", "m", "e">>,
        <<"[jak]", "[seong]", "[il]">> >>
>>

\* the dict keys of content_type_patterns
ContentTypeKeys ==
    { content_type_patterns[k][1] : k \in 1..Len(content_type_patterns) }

\* the literals of analyze_unified_intent and detect_target_content
search_keywords == {<<"[chat]", "[a]", "[jwo]">>, <<"[geom]", "[saek]">>,
                    <<"[chat]", "[gi]">>, <<"[al]", "[a]", "[bwa]">>}
platform_keywords == {<<"[ku]", "[pang]">>, <<"[ne]", "[i]", "[beo]">>,
                      <<"[gu]", "[geul]">>, <<"[a]", "[ma]", "[jon]">>}
title_bonus_words == {<<"[chu]", "[chul]">>, <<"[ga]", "[jyeo]">>, <<"[ppop]", "[a]">>}
only_particle == <<"[man]">>

\* url_pattern: the characters of [a-zA-Z] | [0-9] | [$-_@.&+] | [!*\(\),]
\* (the range $-_ spans the ASCII codes 0x24 to 0x5F); a %XX escape is made
\* of such characters too
UrlBodyChars ==
    AlnumChars \cup {"$", "%", "&", "'", "(", ")", "*", "+", ",", "-", ".", "/",
                     ":", ";", "<", "=", ">", "?", "@", "[", "\\", "]", "^", "_", "!"}

StartsWith(text, i, prefix) ==
    /\ i + Len(prefix) - 1 <= Len(text)
    /\ SubSeq(text, i, i + Len(prefix) - 1) = prefix

\* last index of the run of characters of set cs that starts at position i
\* (i - 1 when text[i] is not in cs)
RECURSIVE RunEnd(_, _, _)
RunEnd(text, i, cs) ==
    IF i <= Len(text) /\ text[i] \in cs THEN RunEnd(text, i + 1, cs) ELSE i - 1

\* length of "http://" or "https://" at position i, 0 if neither is there
SchemeLen(text, i) ==
    IF StartsWith(text, i, <<"h", "t", "t", "p", ":", "/", "/">>) THEN 7
    ELSE IF StartsWith(text, i, <<"h", "t", "t", "p", "s", ":", "/", "/">>) THEN 8
    ELSE 0

\* url_pattern.findall(text) from position i on
RECURSIVE FindFullUrls(_, _)
FindFullUrls(text, i) ==
    IF i > Len(text) THEN <<>>
    ELSE LET k == SchemeLen(text, i)
             e == RunEnd(text, i + k, UrlBodyChars)
         IN  IF k > 0 /\ e >= i + k
             THEN <<SubSeq(text, i, e)>> \o FindFullUrls(text, e + 1)
             ELSE FindFullUrls(text, i + 1)

\* domain_pattern matches the whole of p: labels separated by dots, the last
\* one made of two or more letters (an optional leading "www." is a label)
IsDomainName(p) ==
    \E d \in 2..(Len(p) - 2) :
        /\ p[d] = "."
        /\ \A k \in (d + 1)..Len(p) : p[k] \in AlphaChars
        /\ DomainMatches(SubSeq(p, 1, d - 1))

\* the match of domain_pattern at position i: the length of the longest text
\* starting there that the pattern matches, 0 if none
DomainMatchLen(text, i) ==
    LET e == RunEnd(text, i, AlnumChars \cup {"-", "."})
        lens == { l \in 1..(e - i + 1) : IsDomainName(SubSeq(text, i, i + l - 1)) }
    IN  IF lens = {} THEN 0 ELSE CHOOSE l \in lens : \A m \in lens : m <= l

\* domain_pattern.findall(text) from position i on
RECURSIVE FindDomains(_, _)
FindDomains(text, i) ==
    IF i > Len(text) THEN <<>>
    ELSE LET l == DomainMatchLen(text, i)
         IN  IF l > 0
             THEN <<SubSeq(text, i, i + l - 1)>> \o FindDomains(text, i + l)
             ELSE FindDomains(text, i + 1)

\* NaturalLanguageParser.extract_urls: the set behind list(set(urls))
extract_urls(text) ==
    LET full_urls == FindFullUrls(text, 1)
        domains == FindDomains(text, 1)
        Www(d) == IF StartsWith(d, 1, <<"w", "w", "w", ".">>) THEN d
                  ELSE <<"w", "w", "w", ".">> \o d
    IN  Range(full_urls)
        \cup { <<"h", "t", "t", "p", "s", ":", "/", "/">> \o Www(domains[k]) :
                 k \in { k \in 1..Len(domains) :
                           \A u \in 1..Len(full_urls) :
                               ~Contains(full_urls[u], domains[k]) } }

Max(a, b) == IF a >= b THEN a ELSE b
Min(a, b) == IF a <= b THEN a ELSE b

\* detect_target_content: the confidence (in hundredths) of one content type
TypeConfidence(text_lower, k) ==
    LET kws == content_type_patterns[k]
        Score(w) == IF ~Contains(text_lower, w) THEN 0
                    ELSE IF Contains(text_lower, w \o only_particle)
                            \/ Contains(text_lower, w \o <<" ">> \o only_particle)
                    THEN 80 ELSE 50
        base == CHOOSE m \in {Score(kws[j]) : j \in 1..Len(kws)} :
                    \A j \in 1..Len(kws) : Score(kws[j]) <= m
    IN  IF kws[1] = <<"[je]", "[mok]">>
           /\ \E w \in title_bonus_words : Contains(text_lower, w)
        THEN Min(100, base + 20) ELSE base

\* NaturalLanguageParser.detect_target_content: [target, confidence]; the
\* first type with the highest confidence wins, the word for "all" when every
\* confidence is 0
detect_target_content(text) ==
    LET text_lower == Lower(text)
        n == Len(content_type_patterns)
        best == CHOOSE m \in {TypeConfidence(text_lower, k) : k \in 1..n} :
                    \A k \in 1..n : TypeConfidence(text_lower, k) <= m
    IN  IF best = 0 THEN [target |-> <<"[jeon]", "[che]">>, confidence |-> 0]
        ELSE [target |-> content_type_patterns[
                            CHOOSE k \in 1..n :
                                /\ TypeConfidence(text_lower, k) = best
                                /\ \A j \in 1..(k - 1) :
                                      TypeConfidence(text_lower, j) < best][1],
              confidence |-> Min(100, Max(0, best))]

\* UnifiedIntent: request_type, urls and confidence (in hundredths)
UnifiedIntent(request_type, urls, confidence) ==
    [request_type |-> request_type, urls |-> urls, confidence |-> confidence]

NoIntent == UnifiedIntent("none", {}, 0)

\* re.search(before + r"\s+(.+?)\s+" + after, text) finds a query that
\* is not blank: blanks follow the word before, blanks precede the word
\* after, and a character other than a blank stands in between
QueryBetween(text, before, after) ==
    \E i \in 1..Len(text), j \in 1..Len(text) :
        /\ StartsWith(text, i, before)
        /\ i + Len(before) <= Len(text) /\ text[i + Len(before)] = " "
        /\ j > i + Len(before) + 1
        /\ text[j - 1] = " "
        /\ StartsWith(text, j, after)
        /\ \E k \in (i + Len(before) + 1)..(j - 2) : text[k] # " "

\* re.search(r"(.+?)\s+" + word + r"\s+" + after, text) finds a query that
\* is not blank
QueryBefore(text, word, after) ==
    \E j \in 2..Len(text) :
        /\ StartsWith(text, j, word)
        /\ text[j - 1] = " "
        /\ \E k \in 1..(j - 2) : text[k] # " "
        /\ LET b == RunEnd(text, j + Len(word), {" "})
           IN  b >= j + Len(word) /\ StartsWith(text, b + 1, after)

\* _analyze_search_intent: search_query is found by one of the three
\* search_patterns
SearchQueryFound(text) ==
    \/ QueryBetween(text, <<"[e]", "[seo]">>, <<"[chat]", "[a]", "[jwo]">>)
    \/ QueryBetween(text, <<"[e]", "[seo]">>, <<"[geom]", "[saek]">>)
    \/ QueryBefore(text, <<"[jeong]", "[bo]">>, <<"[chat]", "[a]", "[jwo]">>)

\* _analyze_search_intent: the platform is always detected when this is
\* reached; confidence 0.7 with a search query, else 0.3
_analyze_search_intent(text) ==
    UnifiedIntent("search", {}, IF SearchQueryFound(text) THEN 70 ELSE 30)

\* _analyze_bulk_selective_intent: 0.6, plus 0.2 for the first dict key found
_analyze_bulk_selective_intent(text, urls) ==
    UnifiedIntent("bulk_selective", urls,
                  Min(IF \E w \in ContentTypeKeys : Contains(text, w) THEN 80 ELSE 60, 100))

\* NaturalLanguageParser.analyze_unified_intent
analyze_unified_intent(text) ==
    LET urls == extract_urls(text)
        url_count == Cardinality(urls)
        has_extraction_keywords == \E w \in ContentTypeKeys : Contains(text, w)
        has_search_keywords == \E w \in search_keywords : Contains(text, w)
        has_platform_keywords == \E w \in platform_keywords : Contains(text, w)
    IN  IF url_count = 0
        THEN IF has_platform_keywords /\ has_search_keywords
             THEN _analyze_search_intent(text)
             ELSE UnifiedIntent("invalid", {}, 0)
        ELSE IF url_count = 1
        THEN IF has_extraction_keywords
             THEN UnifiedIntent("selective", urls, detect_target_content(text).confidence)
             ELSE UnifiedIntent("single", urls, 90)
        ELSE IF has_extraction_keywords
             THEN _analyze_bulk_selective_intent(text, urls)
             ELSE UnifiedIntent("bulk", urls, 80)

\* base.py 26, 34-35: the timing fields of a CrawlStrategy, in seconds
Timing(timeout, activity_timeout, max_total_time) ==
    [timeout |-> timeout, activity_timeout |-> activity_timeout,
     max_total_time |-> max_total_time]

NoTiming == Timing(0, 0, 0)

\* how a crawl of the HTTP adapter ended: the status of the CrawlResult, the
\* number of chunks its content was built from, and what ended the read
ReadOut(status, chunks, ended_by) ==
    [status |-> status, chunks |-> chunks, ended_by |-> ended_by]

NoRead == ReadOut("none", 0, "none")

\* ------------------------------------------------------------------ state
VARIABLES
    is_initialized,     \* MultiEngineCrawler.is_initialized
    engines,            \* MultiEngineCrawler.engines: registered names, dict order
    engine_ready,       \* names of the adapters whose is_initialized is True
    lifecycle,          \* "constructed" | "initialized" | "cleaned"
    pc,                 \* position of the call in progress
    caller,             \* "orchestrator" | "direct" (crawl_with_retry called directly)
    url,                \* argument url
    strategy,           \* the CrawlStrategy in use
    analysis_result,    \* crawl_with_strategy: analysis_result
    sample_fetch,       \* history: how the analyzer's sample fetch of this call ended
    idx,                \* crawl_with_strategy: loop index i (1-based)
    attempted_engines,  \* crawl_with_strategy: attempted_engines
    last_error,         \* crawl_with_strategy: last_error
    r_engine,           \* crawl_with_retry: self.name
    attempt,            \* crawl_with_retry: attempt
    retry_last_error,   \* crawl_with_retry: last_error
    r_out,              \* what crawl_with_retry returned or raised
    attempts,           \* history: outcome of every crawl of this crawl_with_retry
    sleeps,             \* history: back-off sleeps of this crawl_with_retry
    invoked,            \* history: engines whose crawl_with_retry this call started
    outcomes,           \* history: how each of them ended
    out                 \* what the call returned or raised

ovars == <<is_initialized, engines, engine_ready, lifecycle, pc, caller, url,
           strategy, analysis_result, sample_fetch, idx, attempted_engines, last_error,
           r_engine, attempt, retry_last_error, r_out, attempts, sleeps,
           invoked, outcomes, out>>

registry_vars == <<is_initialized, engines, engine_ready, lifecycle>>
analysis_vars == <<analysis_result, sample_fetch>>
retry_vars == <<r_engine, attempt, retry_last_error, r_out, attempts, sleeps>>
loop_vars == <<idx, attempted_engines, last_error, invoked, outcomes>>

\* state of a bulk job (api/routes.py) and of the Progress Hub (api/websocket.py)
VARIABLES
    route,              \* "none" | "bulk" (POST /crawl/bulk) | "unified" (unified route)
    urls_n,             \* len(urls) of the job
    max_concurrent,     \* request.max_concurrent (POST /crawl/bulk)
    active_jobs,        \* active_jobs[job_id]
    w_pc,               \* position of process_bulk_crawl
    semaphore,          \* the asyncio.Semaphore of the fan-out
    completed_count,    \* process_bulk_crawl: completed_count (POST /crawl/bulk)
    success_count,      \* process_bulk_crawl: success_count (POST /crawl/bulk)
    t_pc,               \* position of each crawl_single_with_progress task
    t_out,              \* what each task handed to asyncio.gather
    t_loc,              \* locals of a task that live across an await
    summary,            \* the persisted summary file
    active_connections, \* ConnectionManager.active_connections (ids)
    job_connections,    \* ConnectionManager.job_connections, in dict order
    pub,                \* send_job_update calls suspended in send_text
    published,          \* history: what was published to the hub for the job id
    cancel_response,    \* history: the answer of the last DELETE /jobs/{id}
    hub_targets,        \* history: subscribers of the job, active since a publish began
    hub_sent,           \* history: connections send_text was called on by that publish
    hub_raised,         \* history: that publish raised into its caller
    clock,              \* datetime.now() in whole seconds
    issued,             \* history: the job_id given to each accepted bulk request
    request_text,       \* unified_crawl: request.text
    intent,             \* unified_crawl: intent
    rd_pc,              \* position of RequestsEngine.crawl
    rd_strategy,        \* the strategy's timeout, activity_timeout, max_total_time
    rd_now,             \* time.time() in whole seconds since the request began
    start_time,         \* _read_response_with_activity_timeout: start_time
    last_chunk_time,    \* _read_response_with_activity_timeout: last_chunk_time
    content_chunks,     \* len(content_chunks)
    rd_out              \* how the read ended and what crawl returned

\* history of a single publish through the hub; clock and job ids of the
\* requests accepted so far
hub_hist == <<hub_targets, hub_sent, hub_raised>>
id_vars == <<clock, issued>>
\* the request of the unified route and what the parser made of it
req_vars == <<request_text, intent>>
\* a crawl of the HTTP adapter
read_vars == <<rd_pc, rd_strategy, rd_now, start_time, last_chunk_time, content_chunks,
               rd_out>>

bvars == <<route, urls_n, max_concurrent, active_jobs, w_pc, semaphore,
           completed_count, success_count, t_pc, t_out, t_loc, summary,
           active_connections, job_connections, pub, published, cancel_response,
           hub_hist, id_vars, req_vars,
                   read_vars>>

vars == <<ovars, bvars>>

\* the per-URL tasks of a job; publisher 0 is process_bulk_crawl itself
Tasks == 1..MaxUrls
Publishers == 0..MaxUrls

\* connection ids of WebSocket clients
Conns == 1..MaxConns

\* the job the worker runs and another job clients may subscribe to
job_id == "job"
JobIds == {"job", "other"}

NoJob == [status |-> "none", total_urls |-> 0, completed |-> 0, success |-> 0,
          failed |-> 0, progress |-> 0, results |-> <<>>, end_time |-> FALSE]
NoSummary == [written |-> FALSE, total_urls |-> 0, successful |-> 0, failed |-> 0,
              results |-> <<>>]
NoLoc == [progress |-> 0, result |-> "none"]
\* no send_job_update in progress
NoIt == [active |-> FALSE, i |-> 0, conn |-> 0, disc |-> <<>>, det |-> FALSE]
NoSemaphore == [created |-> FALSE, value |-> 0]
\* nothing published yet: the message types published for the job id and the
\* progress values of its last two progress_update messages
NoLog == [types |-> {}, prev |-> 0 - 1, last |-> 0 - 1]

\* no bulk job, no WebSocket client
BulkIdle ==
    /\ route = "none"
    /\ urls_n = 0
    /\ max_concurrent = 0
    /\ active_jobs = NoJob
    /\ w_pc = "idle"
    /\ semaphore = NoSemaphore
    /\ completed_count = 0
    /\ success_count = 0
    /\ t_pc = [t \in Tasks |-> "none"]
    /\ t_out = [t \in Tasks |-> "none"]
    /\ t_loc = [t \in Tasks |-> NoLoc]
    /\ summary = NoSummary
    /\ active_connections = {}
    /\ job_connections = <<>>
    /\ pub = [p \in Publishers |-> NoIt]
    /\ published = NoLog
    /\ cancel_response = "none"
    /\ hub_targets = {}
    /\ hub_sent = <<>>
    /\ hub_raised = FALSE
    /\ clock = 0
    /\ issued = <<>>
    /\ request_text = <<>>
    /\ intent = NoIntent
    /\ rd_pc = "idle"
    /\ rd_strategy = NoTiming
    /\ rd_now = 0
    /\ start_time = 0
    /\ last_chunk_time = 0
    /\ content_chunks = 0
    /\ rd_out = NoRead

NoOut == Returned(NoResult)

\* state after MultiEngineCrawler() : nothing registered, nothing running
OrchInit ==
    /\ BulkIdle
    /\ is_initialized = FALSE
    /\ engines = <<>>
    /\ engine_ready = {}
    /\ lifecycle = "constructed"
    /\ pc = "idle"
    /\ caller = "orchestrator"
    /\ url = <<>>
    /\ strategy = NoStrategy
    /\ analysis_result = NoAnalysis
    /\ sample_fetch = "none"
    /\ idx = 0
    /\ attempted_engines = <<>>
    /\ last_error = None
    /\ r_engine = ""
    /\ attempt = 0
    /\ retry_last_error = None
    /\ r_out = NoOut
    /\ attempts = <<>>
    /\ sleeps = <<>>
    /\ invoked = <<>>
    /\ outcomes = <<>>
    /\ out = NoOut

\* ------------------------------------------------------------- lifecycle
\* MultiEngineCrawler.initialize: register the four adapters, initialise
\* each, drop those whose initialize raised
initialize(failed_engines) ==
    /\ UNCHANGED bvars
    /\ lifecycle = "constructed"
    /\ engines' = Drop(EngineNames, failed_engines)
    /\ engine_ready' = Range(EngineNames) \ failed_engines
    /\ is_initialized' = TRUE
    /\ lifecycle' = "initialized"
    /\ UNCHANGED <<pc, caller, url, strategy, analysis_vars, loop_vars, retry_vars, out>>

\* MultiEngineCrawler.cleanup: every engine is cleaned up, the registry is
\* kept. Only RequestsEngine.cleanup can raise (session.close()) before it
\* clears is_initialized; the other adapters clear it on every path.
cleanup(cleanup_raised) ==
    /\ UNCHANGED bvars
    /\ lifecycle = "initialized"
    /\ cleanup_raised \subseteq (engine_ready \cap {"requests"})
    /\ engine_ready' = cleanup_raised
    /\ is_initialized' = FALSE
    /\ lifecycle' = "cleaned"
    /\ UNCHANGED <<engines, pc, caller, url, strategy, analysis_vars, loop_vars,
                   retry_vars, out>>

\* ------------------------------------------------------ crawl_with_retry
\* base.py 96-100: entering crawl_with_retry of engine name with strategy s.
\* range(None) raises TypeError; range(n) with n <= 0 skips the loop.
crawl_with_retry_enter(name, s) ==
    /\ r_engine' = name
    /\ attempt' = 0
    /\ retry_last_error' = None
    /\ attempts' = <<>>
    /\ sleeps' = <<>>
    /\ IF ~s.retries_is_int
       THEN r_out' = Raised(ErrRangeTypeError) /\ pc' = "retry_done"
       ELSE IF s.max_retries <= 0
       THEN r_out' = Returned(ExhaustedResult(name, None)) /\ pc' = "retry_done"
       ELSE r_out' = NoOut /\ pc' = "retry_crawl"

\* base.py 131: the exponential back-off before attempt + 1
backoff_ignored(s, k) == s.wait_time

backoff(s, k) == s.wait_time * (2 ^ k)

\* base.py 100-134: one iteration of the retry loop, up to its await of
\* asyncio.sleep or to the return of crawl_with_retry
crawl_with_retry_attempt(fetch) ==
    /\ UNCHANGED bvars
    /\ pc = "retry_crawl"
    /\ LET o == Crawl(r_engine, engine_ready, fetch) IN
       /\ attempts' = Append(attempts, [raised |-> o.raised, msg |-> o.msg,
                                        status |-> o.result.status,
                                        error |-> o.result.error])
       /\ IF ~o.raised
          THEN /\ r_out' = Returned(o.result)
               /\ pc' = "retry_done"
               /\ UNCHANGED <<retry_last_error, sleeps>>
          ELSE /\ retry_last_error' = o.msg
               /\ IF is_permanent(o.msg)
                  THEN /\ r_out' = Returned(ExhaustedResult(r_engine, o.msg))
                       /\ pc' = "retry_done"
                       /\ UNCHANGED sleeps
                  ELSE IF attempt < strategy.max_retries - 1
                  THEN /\ sleeps' = Append(sleeps, backoff(strategy, attempt))
                       /\ pc' = "retry_sleep"
                       /\ UNCHANGED r_out
                  ELSE /\ r_out' = Returned(ExhaustedResult(r_engine, o.msg))
                       /\ pc' = "retry_done"
                       /\ UNCHANGED sleeps
    /\ UNCHANGED <<registry_vars, caller, url, strategy, analysis_vars, loop_vars,
                   r_engine, attempt, out>>

\* base.py 133-134: the back-off sleep is over, continue with the next attempt
crawl_with_retry_sleep ==
    /\ UNCHANGED bvars
    /\ pc = "retry_sleep"
    /\ attempt' = attempt + 1
    /\ pc' = "retry_crawl"
    /\ UNCHANGED <<registry_vars, caller, url, strategy, analysis_vars, loop_vars,
                   r_engine, retry_last_error, r_out, attempts, sleeps, out>>

\* ---------------------------------------------------- crawl_with_strategy
\* engine lists and retry settings of caller-supplied strategies
CustomPriorities == {<<"requests">>, <<"ghost", "requests", "playwright">>, <<"ghost">>}
WaitTimes == {1, 2}
CustomStrategies ==
    {CrawlStrategy(p, m, TRUE, w) :
        p \in CustomPriorities, m \in 0..MaxRetriesBound, w \in WaitTimes}
    \cup {CrawlStrategy(p, 0, FALSE, 1) : p \in CustomPriorities}

\* strategies passed to a direct crawl_with_retry (engine_priority is not read)
DirectStrategies == {s \in CustomStrategies : s.engine_priority = <<"requests">>}

\* sets of engines whose initialize() fails at start-up
InitFailures == {{}, {"firecrawl"}, {"firecrawl", "crawl4ai"},
                 {"requests", "playwright"}, {"requests", "firecrawl", "playwright"},
                 Range(EngineNames)}

\* multi_engine.py 338-373, 463-465: the call up to its first await
crawl_with_strategy(u, custom_strategy) ==
    /\ UNCHANGED bvars
    /\ pc = "idle"
    /\ caller' = "orchestrator"
    /\ url' = u
    /\ idx' = 1
    /\ attempted_engines' = <<>>
    /\ last_error' = None
    /\ invoked' = <<>>
    /\ outcomes' = <<>>
    /\ analysis_result' = NoAnalysis
    /\ sample_fetch' = "none"
    /\ IF ~is_initialized
       THEN /\ out' = Raised(<<"[crawler not initialised]">>)
            /\ pc' = "raised"
            /\ strategy' = NoStrategy
       ELSE IF ~_validate_url(u).ok
       THEN /\ out' = Returned(FailedResult(
                        [NoMeta EXCEPT !.error = _validate_url(u).msg,
                                       !.validation_failed = TRUE],
                        <<"[url validation failed]: ">> \o _validate_url(u).msg))
            /\ pc' = "returned"
            /\ strategy' = NoStrategy
       ELSE IF custom_strategy # NoStrategy
       THEN /\ strategy' = custom_strategy
            /\ pc' = "loop"
            /\ out' = NoOut
       ELSE /\ strategy' = NoStrategy
            /\ pc' = "analyze"
            /\ out' = NoOut
    /\ UNCHANGED <<registry_vars, retry_vars>>

\* multi_engine.py 148-213 and 378-457: the analyzer answers (mcp_ok) or the
\* heuristic fallback is used; the strategy is built from the analysis
analyze_site_and_get_strategy(mcp_ok, response) ==
    /\ UNCHANGED bvars
    /\ pc = "analyze"
    /\ LET a == IF mcp_ok THEN analyze_and_select(_fetch_sample_html(response))
                ELSE _get_fallback_strategy(url) IN
       /\ analysis_result' = a
       /\ sample_fetch' = IF ~mcp_ok THEN "none"
                          ELSE IF response.kind = "ok" THEN "ok" ELSE "failed"
       /\ strategy' = BuildStrategy(a, engines)
    /\ pc' = "loop"
    /\ UNCHANGED <<registry_vars, caller, url, loop_vars, retry_vars, out>>

\* multi_engine.py 552-566
AllEnginesFailed(attempted, s, last) ==
    FailedResult([NoMeta EXCEPT !.attempted_engines = attempted,
                                !.total_available_engines = Len(s.engine_priority),
                                !.error = Str(last),
                                !.all_engines_failed = TRUE],
                 <<"[all engines failed]: ">> \o Str(last))

\* multi_engine.py 472-486 and 547-566: head of the engine loop: return the
\* failure when the list is exhausted, skip an unregistered engine, or call
\* crawl_with_retry of the next engine
engine_loop_next ==
    /\ UNCHANGED bvars
    /\ pc = "loop"
    /\ IF idx > Len(strategy.engine_priority)
       THEN /\ out' = Returned(AllEnginesFailed(attempted_engines, strategy, last_error))
            /\ pc' = "returned"
            /\ UNCHANGED <<loop_vars, retry_vars>>
       ELSE LET engine_name == strategy.engine_priority[idx] IN
            /\ attempted_engines' = Append(attempted_engines, engine_name)
            /\ IF engine_name \notin Range(engines)
               THEN /\ idx' = idx + 1
                    /\ pc' = "loop"
                    /\ UNCHANGED <<invoked, retry_vars>>
               ELSE /\ invoked' = Append(invoked, engine_name)
                    /\ crawl_with_retry_enter(engine_name, strategy)
                    /\ UNCHANGED idx
            /\ UNCHANGED <<last_error, outcomes, out>>
    /\ UNCHANGED <<registry_vars, caller, url, strategy, analysis_vars>>

\* multi_engine.py 603-623: engine_selection_reason.analysis_method ("MCP AI
\* 분석" or "폴백 전략") and .confidence (crawling_strategy.get("confidence", 0))
_generate_engine_selection_explanation(analysis) ==
    [analysis_method |-> IF ~analysis.is_fallback THEN "mcp_ai_analysis"
                         ELSE "fallback_strategy",
     confidence |-> IF analysis.confidence = <<>> THEN <<0>> ELSE analysis.confidence]

\* SuccessMetadata that adds neither mcp_analysis nor engine_selection_reason
SuccessMetadata_unmarked(metadata, attempted, i, s, engine_name, analysis) ==
    [metadata EXCEPT !.attempted_engines = attempted,
                     !.successful_engine_index = i,
                     !.total_available_engines = Len(s.engine_priority),
                     !.engine_used = engine_name]

\* multi_engine.py 498-537: the metadata added to a complete result; the keys
\* mcp_analysis, used_mcp_intelligence and engine_selection_reason are added
\* when the call has an analysis (is_fallback is mcp_analysis["is_fallback"])
SuccessMetadata(metadata, attempted, i, s, engine_name, analysis) ==
    IF ~analysis.present
    THEN [metadata EXCEPT !.attempted_engines = attempted,
                          !.successful_engine_index = i,
                          !.total_available_engines = Len(s.engine_priority),
                          !.engine_used = engine_name]
    ELSE [metadata EXCEPT !.attempted_engines = attempted,
                          !.successful_engine_index = i,
                          !.total_available_engines = Len(s.engine_priority),
                          !.engine_used = engine_name,
                          !.used_mcp_intelligence = TRUE,
                          !.is_fallback = analysis.is_fallback,
                          !.analysis_method =
                              _generate_engine_selection_explanation(analysis).analysis_method,
                          !.confidence =
                              _generate_engine_selection_explanation(analysis).confidence]

\* engine_loop_result without the return on status complete: the loop goes
\* on to the next engine
engine_loop_result_no_return ==
    /\ UNCHANGED bvars
    /\ pc = "retry_done"
    /\ caller = "orchestrator"
    /\ IF r_out.raised
       THEN /\ last_error' = r_out.msg
            /\ outcomes' = Append(outcomes, "raised")
       ELSE /\ last_error' = r_out.result.error
            /\ outcomes' = Append(outcomes, r_out.result.status)
    /\ idx' = idx + 1
    /\ pc' = "loop"
    /\ UNCHANGED <<registry_vars, caller, url, strategy, analysis_vars,
                   attempted_engines, invoked, retry_vars, out>>

\* multi_engine.py 486-545: crawl_with_retry came back to the engine loop
engine_loop_result ==
    /\ UNCHANGED bvars
    /\ pc = "retry_done"
    /\ caller = "orchestrator"
    /\ IF r_out.raised
       THEN /\ last_error' = r_out.msg
            /\ outcomes' = Append(outcomes, "raised")
            /\ idx' = idx + 1
            /\ pc' = "loop"
            /\ UNCHANGED out
       ELSE IF r_out.result.status = "complete"
       THEN /\ out' = Returned([r_out.result EXCEPT !.metadata =
                        SuccessMetadata(r_out.result.metadata, attempted_engines, idx,
                                        strategy, r_engine, analysis_result)])
            /\ outcomes' = Append(outcomes, "complete")
            /\ pc' = "returned"
            /\ UNCHANGED <<idx, last_error>>
       ELSE /\ last_error' = r_out.result.error
            /\ outcomes' = Append(outcomes, r_out.result.status)
            /\ idx' = idx + 1
            /\ pc' = "loop"
            /\ UNCHANGED out
    /\ UNCHANGED <<registry_vars, caller, url, strategy, analysis_vars,
                   attempted_engines, invoked, retry_vars>>

\* engine.crawl_with_retry(url, strategy) called directly on a registered
\* adapter or on a raising BaseCrawler subclass ("stub")
crawl_with_retry(name, u, s) ==
    /\ UNCHANGED bvars
    /\ pc = "idle"
    /\ name \in Range(engines) \cup {"stub"}
    /\ caller' = "direct"
    /\ url' = u
    /\ strategy' = s
    /\ crawl_with_retry_enter(name, s)
    /\ out' = NoOut
    /\ analysis_result' = NoAnalysis
    /\ sample_fetch' = "none"
    /\ idx' = 0
    /\ attempted_engines' = <<>>
    /\ last_error' = None
    /\ invoked' = <<>>
    /\ outcomes' = <<>>
    /\ UNCHANGED registry_vars

\* the direct caller receives what crawl_with_retry returned or raised
crawl_with_retry_return ==
    /\ UNCHANGED bvars
    /\ pc = "retry_done"
    /\ caller = "direct"
    /\ out' = r_out
    /\ pc' = IF r_out.raised THEN "raised" ELSE "returned"
    /\ UNCHANGED <<registry_vars, caller, url, strategy, analysis_vars, loop_vars,
                   retry_vars>>

\* a caller asks the initialised orchestrator for the strategy of a type
strategy_config_requested(strategy_type) ==
    /\ UNCHANGED bvars
    /\ pc = "idle"
    /\ is_initialized
    /\ caller' = "config"
    /\ strategy' = get_strategy_config(strategy_type, engines)
    /\ analysis_result' = [NoAnalysis EXCEPT !.strategy_type = strategy_type]
    /\ sample_fetch' = "none"
    /\ pc' = "config"
    /\ UNCHANGED <<registry_vars, url, loop_vars, retry_vars, out>>

\* the caller has taken the outcome and the call's locals are gone; the
\* next call may start
call_finished ==
    /\ UNCHANGED bvars
    /\ pc \in {"returned", "raised", "config"}
    /\ pc' = "idle"
    /\ caller' = "orchestrator"
    /\ url' = <<>>
    /\ strategy' = NoStrategy
    /\ analysis_result' = NoAnalysis
    /\ sample_fetch' = "none"
    /\ idx' = 0
    /\ attempted_engines' = <<>>
    /\ last_error' = None
    /\ invoked' = <<>>
    /\ outcomes' = <<>>
    /\ r_engine' = ""
    /\ attempt' = 0
    /\ retry_last_error' = None
    /\ r_out' = NoOut
    /\ attempts' = <<>>
    /\ sleeps' = <<>>
    /\ out' = NoOut
    /\ UNCHANGED registry_vars

OrchNext ==
    \/ \E failed_engines \in InitFailures : initialize(failed_engines)
    \/ \E cleanup_raised \in SUBSET {"requests"} : cleanup(cleanup_raised)
    \/ \E u \in Urls, cs \in CustomStrategies \cup {NoStrategy} : crawl_with_strategy(u, cs)
    \/ \E r \in SampleResponses, mcp_ok \in BOOLEAN : analyze_site_and_get_strategy(mcp_ok, r)
    \/ engine_loop_next
    \/ engine_loop_result
    \/ \E f \in FetchOutcomes : crawl_with_retry_attempt(f)
    \/ crawl_with_retry_sleep
    \/ \E name \in Range(EngineNames) \cup {"stub"}, s \in DirectStrategies :
            crawl_with_retry(name, UrlPlain, s)
    \/ crawl_with_retry_return
    \/ \E t \in StrategyTypes : strategy_config_requested(t)
    \/ call_finished

Spec == OrchInit /\ [][OrchNext]_vars

\* =============================================== Progress Hub (websocket.py)
HasJob(jc, j) == \E k \in 1..Len(jc) : jc[k].job = j
JobIndex(jc, j) == CHOOSE k \in 1..Len(jc) : jc[k].job = j
JobList(jc, j) == jc[JobIndex(jc, j)].conns

\* list.remove(x): the first occurrence
Remove(s, x) ==
    LET k == CHOOSE i \in 1..Len(s) : s[i] = x /\ \A m \in 1..(i - 1) : s[m] # x
    IN  SubSeq(s, 1, k - 1) \o SubSeq(s, k + 1, Len(s))

\* del d[key] of the dict held as a sequence of entries
DelEntry(jc, k) == SubSeq(jc, 1, k - 1) \o SubSeq(jc, k + 1, Len(jc))

\* websocket.py 59-61: for conn_id in disconnected: remove it if it is listed
RECURSIVE RemoveEach(_, _)
RemoveEach(lst, disc) ==
    IF disc = <<>> THEN lst
    ELSE RemoveEach(IF Head(disc) \in Range(lst) THEN Remove(lst, Head(disc)) ELSE lst,
                    Tail(disc))

\* outcome of a (part of a) send_job_update call: it is suspended in send_text
\* ("await"), it returned ("done") or it raised KeyError ("raise")
SendOut(kind, it, jc) == [kind |-> kind, it |-> it, jc |-> jc]

\* websocket.py 48-56: the for loop from list index i on, up to its next
\* await of send_text or to its end
RECURSIVE send_loop(_, _, _, _)
send_loop(lst, ac, i, disc) ==
    IF i > Len(lst) THEN [end |-> TRUE, i |-> i, disc |-> disc]
    ELSE IF lst[i] \in ac THEN [end |-> FALSE, i |-> i, disc |-> disc]
    ELSE send_loop(lst, ac, i + 1, Append(disc, lst[i]))

\* websocket.py 58-61: job_connections[job_id] is looked up again for every
\* collected connection; the lookup raises KeyError when the key is gone
send_cleanup(jc, j, disc) ==
    IF disc = <<>> THEN SendOut("done", NoIt, jc)
    ELSE IF ~HasJob(jc, j) THEN SendOut("raise", NoIt, jc)
    ELSE SendOut("done", NoIt,
                 [jc EXCEPT ![JobIndex(jc, j)].conns = RemoveEach(@, disc)])

send_continue(jc, ac, j, lst, i, disc, det) ==
    LET a == send_loop(lst, ac, i, disc)
    IN  IF a.end THEN send_cleanup(jc, j, a.disc)
        ELSE SendOut("await",
                     [active |-> TRUE, i |-> a.i, conn |-> lst[a.i],
                      disc |-> a.disc, det |-> det],
                     jc)

\* ConnectionManager.send_job_update (reached through send_crawling_progress,
\* send_crawling_complete and send_crawling_error) up to its first await
send_job_update(jc, ac, j) ==
    IF ~HasJob(jc, j) THEN SendOut("done", NoIt, jc)
    ELSE send_continue(jc, ac, j, JobList(jc, j), 1, <<>>, FALSE)

\* websocket.py 50-56: the awaited send_text returned (sent) or raised; the
\* loop goes on over the list object it started on, which is empty once
\* disconnect has deleted it from the dict (it.det)
send_text_returned(jc, ac, j, it, sent) ==
    send_continue(jc, ac, j,
                  IF it.det THEN <<>> ELSE JobList(jc, j),
                  it.i + 1,
                  IF sent THEN it.disc ELSE Append(it.disc, it.conn),
                  it.det)

\* ConnectionManager.connect
connect(c) ==
    /\ UNCHANGED ovars
    /\ c \notin active_connections
    /\ active_connections' = active_connections \cup {c}
    /\ UNCHANGED <<route, urls_n, max_concurrent, active_jobs, w_pc, semaphore,
                   completed_count, success_count, t_pc, t_out, t_loc, summary,
                   job_connections, pub, published, cancel_response, hub_hist, id_vars, req_vars,
                   read_vars>>

\* ConnectionManager.subscribe_to_job, called by the client's handler
subscribe_to_job(c, j) ==
    /\ UNCHANGED ovars
    /\ c \in active_connections
    /\ LET jc == IF HasJob(job_connections, j) THEN job_connections
                 ELSE Append(job_connections, [job |-> j, conns |-> <<>>])
       IN  /\ c \notin Range(JobList(jc, j))
           /\ job_connections' = [jc EXCEPT ![JobIndex(jc, j)].conns = Append(@, c)]
    /\ UNCHANGED <<route, urls_n, max_concurrent, active_jobs, w_pc, semaphore,
                   completed_count, success_count, t_pc, t_out, t_loc, summary,
                   active_connections, pub, published, cancel_response, hub_hist, id_vars, req_vars,
                   read_vars>>

\* ConnectionManager.disconnect, called by the client's handler: the
\* connection leaves the first job list that holds it; a list left empty is
\* deleted from the dict
disconnect(c) ==
    /\ UNCHANGED ovars
    /\ c \in active_connections
    /\ active_connections' = active_connections \ {c}
    /\ IF \E k \in 1..Len(job_connections) : c \in Range(job_connections[k].conns)
       THEN LET k == CHOOSE i \in 1..Len(job_connections) :
                        /\ c \in Range(job_connections[i].conns)
                        /\ \A m \in 1..(i - 1) : c \notin Range(job_connections[m].conns)
                left == Remove(job_connections[k].conns, c)
            IN  IF left = <<>>
                THEN /\ job_connections' = DelEntry(job_connections, k)
                     /\ pub' = [p \in Publishers |->
                                  IF pub[p].active /\ job_connections[k].job = job_id
                                  THEN [pub[p] EXCEPT !.det = TRUE] ELSE pub[p]]
                ELSE /\ job_connections' = [job_connections EXCEPT ![k].conns = left]
                     /\ UNCHANGED pub
       ELSE UNCHANGED <<job_connections, pub>>
    /\ hub_targets' = hub_targets \ {c}
    /\ UNCHANGED <<route, urls_n, max_concurrent, active_jobs, w_pc, semaphore,
                   completed_count, success_count, t_pc, t_out, t_loc, summary,
                   published, cancel_response, hub_sent, hub_raised, id_vars, req_vars,
                   read_vars>>

\* ================================================= bulk workers (routes.py)
\* 10 + int((completed_count / len(urls)) * 80)
Progress80(c, n) == 10 + ((c * 80) \div n)

\* int((active_jobs[job_id]["completed"] / len(urls)) * 100)
Progress100(c, n) == (c * 100) \div n

\* routes.py 1046: asyncio.Semaphore(3)
UnifiedPoolSize == 3

\* a semaphore that never blocks an acquire
locked_never(sem) == FALSE

\* asyncio.Semaphore.locked(): acquire() suspends the task while it holds
locked(sem) == sem.value <= 0

\* outcome of a publish for the job id: the outcome of send_job_update and
\* the history of what was published
Published(p, lg) == [kind |-> p.kind, it |-> p.it, jc |-> p.jc, lg |-> lg]

\* websocket.py 75-88
send_crawling_progress(jc, ac, lg, progress) ==
    Published(send_job_update(jc, ac, job_id),
              [types |-> lg.types \cup {"progress_update"},
               prev |-> lg.last, last |-> progress])

\* websocket.py 90-100
send_crawling_complete(jc, ac, lg) ==
    Published(send_job_update(jc, ac, job_id),
              [lg EXCEPT !.types = @ \cup {"crawling_complete"}])

\* websocket.py 102-112
send_crawling_error(jc, ac, lg) ==
    Published(send_job_update(jc, ac, job_id),
              [lg EXCEPT !.types = @ \cup {"crawling_error"}])

\* a publish that was suspended in send_text goes on
publish_resumed(jc, ac, lg, it, sent) ==
    Published(send_text_returned(jc, ac, job_id, it, sent), lg)

\* what a step of a per-URL task leaves behind
TaskOut(stage, it, jc, lg, cc, sc, aj, ret, loc) ==
    [stage |-> stage, it |-> it, jc |-> jc, lg |-> lg, cc |-> cc, sc |-> sc,
     aj |-> aj, out |-> ret, loc |-> loc]

\* routes.py 338-343 / 361-366
bulk_update(aj, cc, sc, progress) ==
    [aj EXCEPT !.completed = cc, !.success = sc, !.failed = cc - sc,
               !.progress = progress]

\* routes.py 353-378: after the publish of the except branch; the update of
\* active_jobs[job_id] raises KeyError when the job was removed from the store
bulk_except_publish(p, cc, sc, aj, loc) ==
    IF p.kind = "await"
    THEN TaskOut("pub_except", p.it, p.jc, p.lg, cc, sc, aj, "none", loc)
    ELSE IF p.kind = "raise" \/ aj.status = "none"
    THEN TaskOut("done", NoIt, p.jc, p.lg, cc, sc, aj, "raised", NoLoc)
    ELSE TaskOut("done", NoIt, p.jc, p.lg, cc, sc,
                 bulk_update(aj, cc, sc, loc.progress), "failed", NoLoc)

\* routes.py 347-353: the except branch of crawl_single_with_progress
bulk_except(jc, ac, lg, cc, sc, aj, n) ==
    bulk_except_publish(send_crawling_progress(jc, ac, lg, Progress80(cc + 1, n)),
                        cc + 1, sc, aj,
                        [progress |-> Progress80(cc + 1, n), result |-> "none"])

\* routes.py 330-345: after the publish that follows a returned crawl
bulk_result_publish(p, ac, cc, sc, aj, loc, n) ==
    IF p.kind = "await"
    THEN TaskOut("pub_result", p.it, p.jc, p.lg, cc, sc, aj, "none", loc)
    ELSE IF p.kind = "raise" \/ aj.status = "none"
    THEN bulk_except(p.jc, ac, p.lg, cc, sc, aj, n)
    ELSE TaskOut("done", NoIt, p.jc, p.lg, cc, sc,
                 bulk_update(aj, cc, sc, loc.progress), loc.result, NoLoc)

\* routes.py 317-330: crawl_with_strategy returned a result with this status
bulk_crawl_returned(jc, ac, lg, cc, sc, aj, n, status) ==
    LET cc1 == cc + 1
        sc1 == IF status = "complete" THEN sc + 1 ELSE sc
    IN  bulk_result_publish(send_crawling_progress(jc, ac, lg, Progress80(cc1, n)),
                            ac, cc1, sc1, aj,
                            [progress |-> Progress80(cc1, n), result |-> status], n)

\* routes.py 310-317: after the publish that precedes the crawl;
\* crawl_with_strategy raises at once when the orchestrator is not initialised
bulk_start_publish(p, ac, cc, sc, aj, n, init) ==
    IF p.kind = "await"
    THEN TaskOut("pub_start", p.it, p.jc, p.lg, cc, sc, aj, "none", NoLoc)
    ELSE IF p.kind = "raise" \/ ~init THEN bulk_except(p.jc, ac, p.lg, cc, sc, aj, n)
    ELSE TaskOut("crawl", NoIt, p.jc, p.lg, cc, sc, aj, "none", NoLoc)

\* routes.py 1037-1043: after the publish of the except branch (the value a
\* task returns is handed to gather and not read again)
unified_except_publish(p, cc, sc, aj) ==
    IF p.kind = "await"
    THEN TaskOut("pub_except", p.it, p.jc, p.lg, cc, sc, aj, "none", NoLoc)
    ELSE IF p.kind = "raise"
    THEN TaskOut("done", NoIt, p.jc, p.lg, cc, sc, aj, "raised", NoLoc)
    ELSE TaskOut("done", NoIt, p.jc, p.lg, cc, sc, aj, "returned", NoLoc)

\* routes.py 1018-1037: the except branch of crawl_single_with_progress
unified_except(jc, ac, lg, cc, sc, aj, t, n) ==
    LET aj1 == [aj EXCEPT !.completed = @ + 1, !.failed = @ + 1,
                          !.results = Append(@, [url |-> t, status |-> "failed"])]
    IN  unified_except_publish(
            send_crawling_progress(jc, ac, lg, Progress100(aj1.completed, n)),
            cc, sc, aj1)

\* routes.py 1010-1016: after the publish that follows a returned crawl
unified_result_publish(p, ac, cc, sc, aj, t, n) ==
    IF p.kind = "await"
    THEN TaskOut("pub_result", p.it, p.jc, p.lg, cc, sc, aj, "none", NoLoc)
    ELSE IF p.kind = "raise" THEN unified_except(p.jc, ac, p.lg, cc, sc, aj, t, n)
    ELSE TaskOut("done", NoIt, p.jc, p.lg, cc, sc, aj, "returned", NoLoc)

\* routes.py 1001-1010: crawl_single_url returned a response
unified_crawl_returned(jc, ac, lg, cc, sc, aj, t, n) ==
    LET aj1 == [aj EXCEPT !.completed = @ + 1, !.success = @ + 1,
                          !.results = Append(@, [url |-> t, status |-> "complete"])]
    IN  unified_result_publish(
            send_crawling_progress(jc, ac, lg, Progress100(aj1.completed, n)),
            ac, cc, sc, aj1, t, n)

\* a step of task t ends: its position, locals and return value, the shared
\* counters and the hub are updated; a task that ended leaves the
\* "async with semaphore" block
ApplyTask(t, r, sem) ==
    /\ t_pc' = [t_pc EXCEPT ![t] = r.stage]
    /\ pub' = [pub EXCEPT ![t] = r.it]
    /\ job_connections' = r.jc
    /\ published' = r.lg
    /\ completed_count' = r.cc
    /\ success_count' = r.sc
    /\ active_jobs' = r.aj
    /\ t_out' = [t_out EXCEPT ![t] = r.out]
    /\ t_loc' = [t_loc EXCEPT ![t] = r.loc]
    /\ semaphore' = IF r.stage = "done" THEN [sem EXCEPT !.value = @ + 1] ELSE sem
    /\ UNCHANGED <<route, urls_n, max_concurrent, w_pc, summary, active_connections,
                   cancel_response, hub_hist, id_vars, req_vars,
                   read_vars>>

\* routes.py 305-317 / 1048-1001: task t enters "async with semaphore" and
\* runs up to its first await. asyncio.gather schedules the tasks in list
\* order and the semaphore wakes its waiters first-in first-out, so the
\* permits are taken in input order.
crawl_single_with_progress(t) ==
    /\ UNCHANGED ovars
    /\ t_pc[t] = "wait"
    /\ \A u \in 1..(t - 1) : t_pc[u] # "wait"
    /\ ~locked(semaphore)
    /\ LET sem == [semaphore EXCEPT !.value = @ - 1] IN
       IF route = "bulk"
       THEN ApplyTask(t, bulk_start_publish(
                            send_crawling_progress(job_connections, active_connections,
                                published, Progress80(completed_count, urls_n)),
                            active_connections, completed_count, success_count,
                            active_jobs, urls_n, is_initialized), sem)
       ELSE IF ~is_initialized
       THEN ApplyTask(t, unified_except(job_connections, active_connections, published,
                                        completed_count, success_count, active_jobs,
                                        t, urls_n), sem)
       ELSE ApplyTask(t, TaskOut("crawl", NoIt, job_connections, published,
                                 completed_count, success_count, active_jobs,
                                 "none", NoLoc), sem)

\* how the awaited crawl of a URL can end: crawl_with_strategy returns a
\* complete or a failed result; crawl_single_url returns a response or raises
\* HTTPException (422 for a failed result)
CrawlEnds(rt) == IF rt = "bulk" THEN {"complete", "failed"} ELSE {"complete", "raise"}

\* routes.py 317-345 / 1001-1016: the crawl of task t ended
crawl_returned(t, how) ==
    /\ UNCHANGED ovars
    /\ t_pc[t] = "crawl"
    /\ how \in CrawlEnds(route)
    /\ IF route = "bulk"
       THEN ApplyTask(t, bulk_crawl_returned(job_connections, active_connections,
                                             published, completed_count, success_count,
                                             active_jobs, urls_n, how), semaphore)
       ELSE IF how = "complete"
       THEN ApplyTask(t, unified_crawl_returned(job_connections, active_connections,
                                                published, completed_count,
                                                success_count, active_jobs, t, urls_n),
                      semaphore)
       ELSE ApplyTask(t, unified_except(job_connections, active_connections, published,
                                        completed_count, success_count, active_jobs,
                                        t, urls_n),
                      semaphore)

\* a send_text awaited by a publish of task t returned or raised
task_send_text_returned(t, sent) ==
    /\ UNCHANGED ovars
    /\ t \in Tasks
    /\ pub[t].active
    /\ LET p == publish_resumed(job_connections, active_connections, published,
                                pub[t], sent)
       IN  IF route = "bulk"
           THEN IF t_pc[t] = "pub_start"
                THEN ApplyTask(t, bulk_start_publish(p, active_connections,
                                      completed_count, success_count, active_jobs,
                                      urls_n, is_initialized), semaphore)
                ELSE IF t_pc[t] = "pub_result"
                THEN ApplyTask(t, bulk_result_publish(p, active_connections,
                                      completed_count, success_count, active_jobs,
                                      t_loc[t], urls_n), semaphore)
                ELSE ApplyTask(t, bulk_except_publish(p, completed_count, success_count,
                                      active_jobs, t_loc[t]), semaphore)
           ELSE IF t_pc[t] = "pub_result"
                THEN ApplyTask(t, unified_result_publish(p, active_connections,
                                      completed_count, success_count, active_jobs,
                                      t, urls_n), semaphore)
                ELSE ApplyTask(t, unified_except_publish(p, completed_count,
                                      success_count, active_jobs), semaphore)

\* what a step of process_bulk_crawl (or of the request handler that creates
\* the job) leaves behind; fanout says that the per-URL tasks were created
WorkerOut(stage, it, jc, lg, aj, sem, sm, fanout) ==
    [stage |-> stage, it |-> it, jc |-> jc, lg |-> lg, aj |-> aj, sem |-> sem,
     sm |-> sm, fanout |-> fanout]

\* routes.py 442 / 1103 (and 292): after send_crawling_error the worker is
\* over, whether the publish returned or raised
worker_error_publish(p, aj, sem, sm, stage) ==
    IF p.kind = "await" THEN WorkerOut(stage, p.it, p.jc, p.lg, aj, sem, sm, FALSE)
    ELSE WorkerOut("ended", NoIt, p.jc, p.lg, aj, sem, sm, FALSE)

\* routes.py 435-442 / 1097-1103: the outer except of process_bulk_crawl; its
\* update of active_jobs[job_id] raises KeyError out of the worker when the
\* job was removed from the store
outer_except(jc, ac, lg, aj, sem, sm) ==
    IF aj.status = "none" THEN WorkerOut("ended", NoIt, jc, lg, aj, sem, sm, FALSE)
    ELSE worker_error_publish(send_crawling_error(jc, ac, lg),
                              [aj EXCEPT !.status = "failed", !.end_time = TRUE],
                              sem, sm, "pub_error")

\* routes.py 431-433 / 1086-1095: after the publish of the completion event
worker_complete_publish(p, ac, aj, sem, sm) ==
    IF p.kind = "await"
    THEN WorkerOut("pub_complete", p.it, p.jc, p.lg, aj, sem, sm, FALSE)
    ELSE IF p.kind = "raise" THEN outer_except(p.jc, ac, p.lg, aj, sem, sm)
    ELSE WorkerOut("ended", NoIt, p.jc, p.lg, aj, sem, sm, FALSE)

\* the results list of the summary of POST /crawl/bulk: what gather returned,
\* in input order
GatherResults(outs, n) == [t \in 1..n |-> [url |-> t, status |-> outs[t]]]

\* routes.py 386-431 / 1059-1086: write the summary, mark the job completed,
\* publish the completion event (a progress_update of 100 on POST /crawl/bulk,
\* a crawling_complete on the unified route). success_count / len(urls)
\* raises ZeroDivisionError for an empty URL list.
write_summary(rt, jc, ac, lg, aj, sem, n, sc, outs) ==
    IF rt = "bulk"
    THEN IF n = 0 THEN outer_except(jc, ac, lg, aj, sem, NoSummary)
         ELSE worker_complete_publish(
                send_crawling_progress(jc, ac, lg, 100), ac,
                [aj EXCEPT !.status = "completed", !.completed = n, !.success = sc,
                           !.failed = n - sc, !.progress = 100, !.end_time = TRUE],
                sem,
                [written |-> TRUE, total_urls |-> n, successful |-> sc,
                 failed |-> n - sc, results |-> GatherResults(outs, n)])
    ELSE worker_complete_publish(
                send_crawling_complete(jc, ac, lg), ac,
                [aj EXCEPT !.status = "completed", !.end_time = TRUE],
                sem,
                [written |-> TRUE, total_urls |-> n, successful |-> aj.success,
                 failed |-> aj.failed, results |-> aj.results])

\* routes.py 384-386 / 1057-1059: after the publish of the 95 % event
worker_final_publish(p, rt, ac, aj, sem, n, sc, outs) ==
    IF p.kind = "await"
    THEN WorkerOut("pub_final", p.it, p.jc, p.lg, aj, sem, NoSummary, FALSE)
    ELSE IF p.kind = "raise" THEN outer_except(p.jc, ac, p.lg, aj, sem, NoSummary)
    ELSE write_summary(rt, p.jc, ac, p.lg, aj, sem, n, sc, outs)

\* routes.py 296-382 / 986-1054: after the publish of the 5 % event the
\* semaphore is built and the per-URL tasks are handed to asyncio.gather;
\* asyncio.Semaphore(value) raises ValueError for a negative value
worker_start_publish(p, rt, ac, aj, mc) ==
    IF p.kind = "await"
    THEN WorkerOut("pub_start", p.it, p.jc, p.lg, aj, NoSemaphore, NoSummary, FALSE)
    ELSE IF p.kind = "raise"
    THEN outer_except(p.jc, ac, p.lg, aj, NoSemaphore, NoSummary)
    ELSE IF rt = "bulk" /\ mc < 0
    THEN outer_except(p.jc, ac, p.lg, aj, NoSemaphore, NoSummary)
    ELSE WorkerOut("gather", NoIt, p.jc, p.lg, aj,
                   [created |-> TRUE,
                    value |-> IF rt = "bulk" THEN mc ELSE UnifiedPoolSize],
                   NoSummary, TRUE)

\* routes.py 954-978, 1108: the job is created in the store and
\* process_bulk_crawl is scheduled; HTTPException 503 when the orchestrator
\* is not initialised (any more)
_handle_bulk_crawl_internal(jc, lg, aj, n, init) ==
    IF ~init THEN WorkerOut("rejected", NoIt, jc, lg, aj, NoSemaphore, NoSummary, FALSE)
    ELSE WorkerOut("scheduled", NoIt, jc, lg,
                   [NoJob EXCEPT !.status = "processing", !.total_urls = n],
                   NoSemaphore, NoSummary, FALSE)

\* routes.py 906-907: after send_crawling_error the request is answered 500
unified_error_publish(p, aj) ==
    IF p.kind = "await"
    THEN WorkerOut("pub_reject", p.it, p.jc, p.lg, aj, NoSemaphore, NoSummary, FALSE)
    ELSE WorkerOut("rejected", NoIt, p.jc, p.lg, aj, NoSemaphore, NoSummary, FALSE)

\* routes.py 901-907: the except branch of unified_crawl
unified_crawl_except(jc, ac, lg, aj) ==
    unified_error_publish(send_crawling_error(jc, ac, lg), aj)

\* routes.py 812-815, 881-895: after the send_crawling_error of a request
\* that is not served, HTTPException 400 is raised
unified_bad_request_publish(p, ac, aj) ==
    IF p.kind = "await"
    THEN WorkerOut("pub_bad_request", p.it, p.jc, p.lg, aj, NoSemaphore, NoSummary, FALSE)
    ELSE IF p.kind = "raise" THEN unified_crawl_except(p.jc, ac, p.lg, aj)
    ELSE WorkerOut("bad_request", NoIt, p.jc, p.lg, aj, NoSemaphore, NoSummary, FALSE)

\* routes.py 879-889: after the send_crawling_error of a search request,
\* HTTPException 501 is raised
unified_search_publish(p, ac, aj) ==
    IF p.kind = "await"
    THEN WorkerOut("pub_not_implemented", p.it, p.jc, p.lg, aj, NoSemaphore, NoSummary,
                   FALSE)
    ELSE IF p.kind = "raise" THEN unified_crawl_except(p.jc, ac, p.lg, aj)
    ELSE WorkerOut("not_implemented", NoIt, p.jc, p.lg, aj, NoSemaphore, NoSummary, FALSE)

\* routes.py 810-895: the dispatch on intent.request_type. The handlers of a
\* single and of a selective request crawl one URL within the request; the
\* model follows them up to the start of that crawl.
unified_dispatch(jc, ac, lg, aj, req, init) ==
    IF req.request_type = "invalid"
    THEN unified_bad_request_publish(send_crawling_error(jc, ac, lg), ac, aj)
    ELSE IF req.request_type = "single"
    THEN WorkerOut("single_crawl", NoIt, jc, lg, aj, NoSemaphore, NoSummary, FALSE)
    ELSE IF req.request_type = "bulk"
    THEN _handle_bulk_crawl_internal(jc, lg, aj, Cardinality(req.urls), init)
    ELSE IF req.request_type = "selective"
    THEN WorkerOut("selective_crawl", NoIt, jc, lg, aj, NoSemaphore, NoSummary, FALSE)
    ELSE IF req.request_type = "search"
    THEN unified_search_publish(send_crawling_error(jc, ac, lg), ac, aj)
    ELSE unified_bad_request_publish(send_crawling_error(jc, ac, lg), ac, aj)

\* routes.py 805-810: after the publish of the 20 % event
unified_routing_publish(p, ac, aj, req, init) ==
    IF p.kind = "await"
    THEN WorkerOut("pub_routing", p.it, p.jc, p.lg, aj, NoSemaphore, NoSummary, FALSE)
    ELSE IF p.kind = "raise" THEN unified_crawl_except(p.jc, ac, p.lg, aj)
    ELSE unified_dispatch(p.jc, ac, p.lg, aj, req, init)

\* routes.py 798-805: after the publish of the 10 % event the text is analysed
unified_analyzing_publish(p, ac, aj, req, init) ==
    IF p.kind = "await"
    THEN WorkerOut("pub_analyzing", p.it, p.jc, p.lg, aj, NoSemaphore, NoSummary, FALSE)
    ELSE IF p.kind = "raise" THEN unified_crawl_except(p.jc, ac, p.lg, aj)
    ELSE unified_routing_publish(send_crawling_progress(p.jc, ac, p.lg, 20),
                                 ac, aj, req, init)

\* the fields a step of the worker (or of the request handler) writes
WorkerFields(r) ==
    /\ w_pc' = r.stage
    /\ pub' = [pub EXCEPT ![0] = r.it]
    /\ job_connections' = r.jc
    /\ published' = r.lg
    /\ active_jobs' = r.aj
    /\ semaphore' = r.sem
    /\ summary' = r.sm
    /\ t_pc' = IF r.fanout
               THEN [t \in Tasks |-> IF t <= urls_n THEN "wait" ELSE "none"]
               ELSE t_pc
    /\ UNCHANGED <<completed_count, success_count, t_out, t_loc, active_connections,
                   cancel_response, hub_hist, id_vars>>

ApplyWorker(r) ==
    /\ WorkerFields(r)
    /\ UNCHANGED <<route, urls_n, max_concurrent, req_vars,
                   read_vars>>

\* routes.py 259-281, 445: POST /crawl/bulk creates the job and schedules
\* process_bulk_crawl
crawl_bulk_urls(n, mc) ==
    /\ UNCHANGED ovars
    /\ w_pc = "idle"
    /\ is_initialized
    /\ route' = "bulk"
    /\ urls_n' = n
    /\ max_concurrent' = mc
    /\ active_jobs' = [NoJob EXCEPT !.status = "started", !.total_urls = n]
    /\ w_pc' = "scheduled"
    /\ UNCHANGED <<semaphore, completed_count, success_count, t_pc, t_out, t_loc,
                   summary, active_connections, job_connections, pub, published,
                   cancel_response, hub_hist, id_vars, req_vars,
                   read_vars>>

\* routes.py 780-907: the unified route: two progress events, the analysis
\* of request.text, and the dispatch on its result; a bulk request creates
\* the job. intent is a function of the text alone, so it is fixed here
\* although the code computes it after the first progress event.
unified_crawl(text) ==
    /\ UNCHANGED ovars
    /\ w_pc = "idle"
    /\ is_initialized
    /\ route' = "unified"
    /\ request_text' = text
    /\ intent' = analyze_unified_intent(text)
    /\ UNCHANGED read_vars
    /\ urls_n' = Cardinality(analyze_unified_intent(text).urls)
    /\ max_concurrent' = UnifiedPoolSize
    /\ WorkerFields(unified_analyzing_publish(
           send_crawling_progress(job_connections, active_connections, published, 10),
           active_connections, active_jobs, analyze_unified_intent(text),
           is_initialized))

\* routes.py 283-296 / 981-986: process_bulk_crawl starts running
process_bulk_crawl ==
    /\ UNCHANGED ovars
    /\ w_pc = "scheduled"
    /\ IF route = "bulk" /\ ~is_initialized
       THEN ApplyWorker(worker_error_publish(
                send_crawling_error(job_connections, active_connections, published),
                active_jobs, semaphore, summary, "pub_uninit"))
       ELSE ApplyWorker(worker_start_publish(
                send_crawling_progress(job_connections, active_connections, published, 5),
                route, active_connections, active_jobs, max_concurrent))

\* asyncio.gather of POST /crawl/bulk: raises as soon as a task raised
\* (the other tasks keep running), returns when every task returned;
\* with return_exceptions=True (unified) it returns when every task ended
gather_returned ==
    /\ UNCHANGED ovars
    /\ w_pc = "gather"
    /\ LET raised == \E t \in 1..urls_n : t_out[t] = "raised"
           ended == \A t \in 1..urls_n : t_pc[t] = "done"
       IN  IF route = "bulk" /\ raised
           THEN ApplyWorker(outer_except(job_connections, active_connections, published,
                                         active_jobs, semaphore, summary))
           ELSE /\ ended
                /\ ApplyWorker(worker_final_publish(
                       send_crawling_progress(job_connections, active_connections,
                                              published, 95),
                       route, active_connections, active_jobs, semaphore, urls_n,
                       success_count, t_out))

\* a send_text awaited by a publish of process_bulk_crawl, or of the request
\* handler of the unified route, returned or raised
worker_send_text_returned(sent) ==
    /\ UNCHANGED ovars
    /\ pub[0].active
    /\ LET p == publish_resumed(job_connections, active_connections, published,
                                pub[0], sent)
       IN  IF w_pc = "pub_analyzing"
           THEN ApplyWorker(unified_analyzing_publish(p, active_connections, active_jobs,
                                                      intent, is_initialized))
           ELSE IF w_pc = "pub_routing"
           THEN ApplyWorker(unified_routing_publish(p, active_connections, active_jobs,
                                                    intent, is_initialized))
           ELSE IF w_pc = "pub_bad_request"
           THEN ApplyWorker(unified_bad_request_publish(p, active_connections, active_jobs))
           ELSE IF w_pc = "pub_not_implemented"
           THEN ApplyWorker(unified_search_publish(p, active_connections, active_jobs))
           ELSE IF w_pc = "pub_reject"
           THEN ApplyWorker(unified_error_publish(p, active_jobs))
           ELSE IF w_pc = "pub_start"
           THEN ApplyWorker(worker_start_publish(p, route, active_connections,
                                                 active_jobs, max_concurrent))
           ELSE IF w_pc = "pub_final"
           THEN ApplyWorker(worker_final_publish(p, route, active_connections,
                                active_jobs, semaphore, urls_n, success_count, t_out))
           ELSE IF w_pc = "pub_complete"
           THEN ApplyWorker(worker_complete_publish(p, active_connections, active_jobs,
                                                    semaphore, summary))
           ELSE ApplyWorker(worker_error_publish(p, active_jobs, semaphore, summary, w_pc))

\* a DELETE /jobs/{id} that removes the job whatever its status
cancel_job_always(j) ==
    /\ UNCHANGED ovars
    /\ IF j # job_id \/ active_jobs.status = "none"
       THEN /\ cancel_response' = "404"
            /\ UNCHANGED active_jobs
       ELSE /\ cancel_response' = "removed"
            /\ active_jobs' = NoJob
    /\ UNCHANGED <<route, urls_n, max_concurrent, w_pc, semaphore, completed_count,
                   success_count, t_pc, t_out, t_loc, summary, active_connections,
                   job_connections, pub, published, hub_hist, id_vars, req_vars,
                   read_vars>>

\* routes.py 570-583: DELETE /jobs/{id}
cancel_job(j) ==
    /\ UNCHANGED ovars
    /\ IF j # job_id \/ active_jobs.status = "none"
       THEN /\ cancel_response' = "404"
            /\ UNCHANGED active_jobs
       ELSE IF active_jobs.status \in {"completed", "failed"}
       THEN /\ cancel_response' = "removed"
            /\ active_jobs' = NoJob
       ELSE /\ cancel_response' = "in_progress"
            /\ UNCHANGED active_jobs
    /\ UNCHANGED <<route, urls_n, max_concurrent, w_pc, semaphore, completed_count,
                   success_count, t_pc, t_out, t_loc, summary, active_connections,
                   job_connections, pub, published, hub_hist, id_vars, req_vars,
                   read_vars>>

\* chunks of a response body that are followed
MaxChunks == 3

\* the n-th URL of a list of URLs
UrlNo(n) == <<"h", "t", "t", "p", "s", ":", "/", "/", "u", DigitChars[n + 1], ".", "i", "o">>

\* a request text that lists n different URLs
RECURSIVE TextOfUrls(_)
TextOfUrls(n) == IF n = 0 THEN <<>>
                 ELSE IF n = 1 THEN UrlNo(1)
                 ELSE TextOfUrls(n - 1) \o <<" ">> \o UrlNo(n)

\* words a request text is made of
Word_title == <<"[je]", "[mok]">>
Word_title_only_extract == <<"[je]", "[mok]", "[man]", " ", "[chu]", "[chul]">>
Word_price == <<"[ga]", "[gyeok]">>
Word_coupang_cola == <<"[ku]", "[pang]", " ", "[kol]", "[ra]">>
Word_at_coupang_cola == <<"[ku]", "[pang]", "[e]", "[seo]", " ", "[kol]", "[ra]">>
Word_find == <<"[chat]", "[a]", "[jwo]">>
Word_of == <<"[ui]">>

\* two texts joined by a blank, unless one of them is empty
Join(a, b) == IF a = <<>> THEN b ELSE IF b = <<>> THEN a ELSE a \o <<" ">> \o b

\* the URL part of a request text: none, a URL, a bare domain, a URL given
\* twice, two URLs, a URL and a bare domain, a URL and its own domain, a URL
\* with a particle attached
UrlParts ==
    { <<>>, UrlNo(1), <<"b", ".", "k", "r">>, Join(UrlNo(1), UrlNo(1)),
      TextOfUrls(2), Join(UrlNo(1), <<"b", ".", "k", "r">>),
      Join(UrlNo(1), <<"u", "1", ".", "i", "o">>), UrlNo(1) \o Word_of }

\* the rest of a request text: an extraction word (a dict key of
\* content_type_patterns or one of its synonyms), a platform, a search verb
KeywordParts ==
    { <<>>, Word_title, <<"t", "i", "t", "l", "e">>, Word_title_only_extract, Word_price }
PlatformParts == { <<>>, Word_coupang_cola, Word_at_coupang_cola }
VerbParts == { <<>>, Word_find }

\* request.text of POST /crawl/unified
RequestTexts ==
    { Join(Join(u, k), Join(pl, v)) :
        u \in UrlParts, k \in KeywordParts, pl \in PlatformParts, v \in VerbParts }

\* the request texts followed while WebSocket clients come and go: lists of
\* URLs, and one text of each request type that is answered at once
WatchedTexts ==
    { TextOfUrls(n) : n \in 2..MaxWatchedUrls }
        \cup { <<>>, Join(Word_at_coupang_cola, Word_find), Join(TextOfUrls(2), Word_title) }

\* max_concurrent values a POST /crawl/bulk request may carry (the field is
\* an unconstrained Optional[int])
RequestedConcurrency == (0 - 1)..MaxConcurrent

\* the service is up (lifespan start-up ran initialize) and no job exists
BulkInit ==
    /\ BulkIdle
    /\ is_initialized = TRUE
    /\ engines = EngineNames
    /\ engine_ready = Range(EngineNames)
    /\ lifecycle = "initialized"
    /\ pc = "idle"
    /\ caller = "orchestrator"
    /\ url = <<>>
    /\ strategy = NoStrategy
    /\ analysis_result = NoAnalysis
    /\ sample_fetch = "none"
    /\ idx = 0
    /\ attempted_engines = <<>>
    /\ last_error = None
    /\ r_engine = ""
    /\ attempt = 0
    /\ retry_last_error = None
    /\ r_out = NoOut
    /\ attempts = <<>>
    /\ sleeps = <<>>
    /\ invoked = <<>>
    /\ outcomes = <<>>
    /\ out = NoOut

\* one bulk job of either route, WebSocket clients coming and going,
\* DELETE /jobs/{id} requests and the shutdown of the service
BulkNext ==
    \/ \E n \in 0..MaxWatchedUrls, mc \in RequestedConcurrency : crawl_bulk_urls(n, mc)
    \/ \E text \in WatchedTexts : unified_crawl(text)
    \/ process_bulk_crawl
    \/ \E t \in Tasks : crawl_single_with_progress(t)
    \/ \E t \in Tasks, how \in {"complete", "failed", "raise"} : crawl_returned(t, how)
    \/ \E t \in Tasks, sent \in BOOLEAN : task_send_text_returned(t, sent)
    \/ gather_returned
    \/ \E sent \in BOOLEAN : worker_send_text_returned(sent)
    \/ \E c \in Conns : connect(c)
    \/ \E c \in Conns, j \in JobIds : subscribe_to_job(c, j)
    \/ \E c \in Conns : disconnect(c)
    \/ \E j \in JobIds : cancel_job(j)
    \/ cleanup({})

SpecBulk == BulkInit /\ [][BulkNext]_vars

\* one bulk job of either route while no WebSocket client is connected (every
\* publish returns without an await), and DELETE /jobs/{id} requests
PoolNext ==
    \/ \E n \in 0..MaxUrls, mc \in RequestedConcurrency : crawl_bulk_urls(n, mc)
    \/ \E n \in 2..MaxUrls : unified_crawl(TextOfUrls(n))
    \/ process_bulk_crawl
    \/ \E t \in Tasks : crawl_single_with_progress(t)
    \/ \E t \in Tasks, how \in {"complete", "failed", "raise"} : crawl_returned(t, how)
    \/ gather_returned
    \/ \E j \in JobIds : cancel_job(j)
    \/ cleanup({})

SpecPool == BulkInit /\ [][PoolNext]_vars

\* SpecPool under the scheduling of the event loop: a background task that
\* was scheduled starts, a task that can go on does go on, every awaited
\* crawl returns or raises, and gather returns once every task is done. The
\* requests of clients (POST, DELETE) and the shutdown are not forced.
SpecPoolFair ==
    /\ BulkInit
    /\ [][PoolNext]_vars
    /\ WF_vars(process_bulk_crawl)
    /\ \A t \in Tasks : WF_vars(crawl_single_with_progress(t))
    /\ \A t \in Tasks :
          WF_vars(\E how \in {"complete", "failed", "raise"} : crawl_returned(t, how))
    /\ WF_vars(gather_returned)

\* one POST /crawl/unified request of any text while no WebSocket client is
\* connected, and the background job of a request classified as bulk
IntentNext ==
    \/ \E text \in RequestTexts : unified_crawl(text)
    \/ process_bulk_crawl
    \/ \E t \in Tasks : crawl_single_with_progress(t)
    \/ \E t \in Tasks, how \in {"complete", "failed", "raise"} : crawl_returned(t, how)
    \/ gather_returned

SpecIntent == BulkInit /\ [][IntentNext]_vars

\* ============================================ job ids (routes.py 268, 790)
DigitSeq == <<"0", "1", "2", "3", "4", "5", "6", "7", "8", "9">>

\* datetime.strftime('%S'): the whole seconds of a time, two digits
strftime_S(now) ==
    LET sec == (now \div TicksPerSecond) % 60
    IN  <<DigitSeq[(sec \div 10) + 1], DigitSeq[(sec % 10) + 1]>>

\* routes.py 268: f"bulk_{datetime.now().strftime('%Y%m%d_%H%M%S')}" (the
\* date, hour and minute do not change in the runs looked at)
bulk_job_id(now) == <<"b", "u", "l", "k", "_">> \o strftime_S(now)

\* request.job_id of the unified route: absent, or a string the client chose
RequestedJobIds == {<<>>, <<"j", "1">>, <<"j", "2">>}

\* str(uuid.uuid4())[:8]: 32 random bits
UuidTokens == {<<"a", "1">>, <<"c", "7">>}

\* routes.py 790: request.job_id or str(uuid.uuid4())[:8]
unified_job_id(requested, token) == IF requested # <<>> THEN requested ELSE token

\* the clock goes on
tick ==
    /\ UNCHANGED ovars
    /\ clock < MaxClock
    /\ clock' = clock + 1
    /\ UNCHANGED <<route, urls_n, max_concurrent, active_jobs, w_pc, semaphore,
                   completed_count, success_count, t_pc, t_out, t_loc, summary,
                   active_connections, job_connections, pub, published,
                   cancel_response, hub_hist, issued, req_vars, read_vars>>

\* routes.py 264-281: POST /crawl/bulk is accepted, its job gets its id and
\* its entry in the store
bulk_job_accepted ==
    /\ UNCHANGED ovars
    /\ is_initialized
    /\ Len(issued) < MaxRequests
    /\ issued' = Append(issued, bulk_job_id(clock))
    /\ UNCHANGED <<route, urls_n, max_concurrent, active_jobs, w_pc, semaphore,
                   completed_count, success_count, t_pc, t_out, t_loc, summary,
                   active_connections, job_connections, pub, published,
                   cancel_response, hub_hist, clock, req_vars, read_vars>>

\* routes.py 787-790, 966-976: a bulk request of the unified route is
\* accepted, its job gets its id and its entry in the store
unified_job_accepted(requested, token) ==
    /\ UNCHANGED ovars
    /\ is_initialized
    /\ Len(issued) < MaxRequests
    /\ issued' = Append(issued, unified_job_id(requested, token))
    /\ UNCHANGED <<route, urls_n, max_concurrent, active_jobs, w_pc, semaphore,
                   completed_count, success_count, t_pc, t_out, t_loc, summary,
                   active_connections, job_connections, pub, published,
                   cancel_response, hub_hist, clock, req_vars, read_vars>>

IdsNext ==
    \/ tick
    \/ bulk_job_accepted
    \/ \E requested \in RequestedJobIds, token \in UuidTokens :
          unified_job_accepted(requested, token)

SpecIds == BulkInit /\ [][IdsNext]_vars

\* ===================================== the Progress Hub on its own
HubConns == 1..MaxHubConns

\* a send_text call of the running publish: the connection, and whether the
\* hub lists it as a subscriber of the job at that moment
Sent(c, jc) ==
    [conn |-> c,
     subscribed |-> HasJob(jc, job_id) /\ c \in Range(JobList(jc, job_id))]

\* send_text is called when send_job_update suspends in it
SentBy(p, sent_so_far) ==
    IF p.kind = "await" THEN Append(sent_so_far, Sent(p.it.conn, p.jc)) ELSE sent_so_far

\* a caller publishes a message for the job: send_job_update runs to its
\* first await or to its end
hub_publish ==
    /\ UNCHANGED ovars
    /\ ~pub[0].active
    /\ LET p == send_job_update(job_connections, active_connections, job_id)
       IN  /\ hub_targets' = IF HasJob(job_connections, job_id)
                             THEN Range(JobList(job_connections, job_id))
                                      \cap active_connections
                             ELSE {}
           /\ hub_sent' = SentBy(p, <<>>)
           /\ hub_raised' = (p.kind = "raise")
           /\ pub' = [pub EXCEPT ![0] = p.it]
           /\ job_connections' = p.jc
    /\ UNCHANGED <<route, urls_n, max_concurrent, active_jobs, w_pc, semaphore,
                   completed_count, success_count, t_pc, t_out, t_loc, summary,
                   active_connections, published, cancel_response, id_vars, req_vars,
                   read_vars>>

\* the send_text the publish awaits returned or raised
hub_send_text_returned(sent) ==
    /\ UNCHANGED ovars
    /\ pub[0].active
    /\ LET p == send_text_returned(job_connections, active_connections, job_id,
                                   pub[0], sent)
       IN  /\ hub_sent' = SentBy(p, hub_sent)
           /\ hub_raised' = (p.kind = "raise")
           /\ pub' = [pub EXCEPT ![0] = p.it]
           /\ job_connections' = p.jc
    /\ UNCHANGED <<route, urls_n, max_concurrent, active_jobs, w_pc, semaphore,
                   completed_count, success_count, t_pc, t_out, t_loc, summary,
                   active_connections, published, cancel_response, hub_targets,
                   id_vars, req_vars,
                   read_vars>>

HubNext ==
    \/ \E c \in HubConns : connect(c)
    \/ \E c \in HubConns, j \in JobIds : subscribe_to_job(c, j)
    \/ \E c \in HubConns : disconnect(c)
    \/ hub_publish
    \/ \E sent \in BOOLEAN : hub_send_text_returned(sent)

SpecHub == BulkInit /\ [][HubNext]_vars

\* ------------------------------------------- the HTTP adapter (requests)
\* everything of the service but the crawl of the HTTP adapter
service_vars == <<route, urls_n, max_concurrent, active_jobs, w_pc, semaphore,
                  completed_count, success_count, t_pc, t_out, t_loc, summary,
                  active_connections, job_connections, pub, published, cancel_response,
                  hub_hist, id_vars, req_vars>>

\* the strategies a crawl is followed for: the defaults of CrawlStrategy, a
\* short activity timeout, and a ceiling below the connection timeout
ReadStrategies == {Timing(30, 15, 300), Timing(30, 2, 60), Timing(6, 2, 4)}

\* requests_engine.py 252-276, 200-205: session.get answers after delay
\* seconds; a status of 400 or more fails the crawl, otherwise the read loop
\* starts
requests_crawl(s, delay, status_ok) ==
    /\ UNCHANGED <<ovars, service_vars>>
    /\ rd_pc = "idle"
    /\ rd_strategy' = s
    /\ rd_now' = delay
    /\ start_time' = delay
    /\ last_chunk_time' = delay
    /\ content_chunks' = 0
    /\ IF status_ok
       THEN /\ rd_pc' = "reading"
            /\ rd_out' = NoRead
       ELSE /\ rd_pc' = "done"
            /\ rd_out' = ReadOut("failed", 0, "http_status")

\* a second passes while the loop awaits the next chunk; the total timeout
\* of the request (ClientTimeout(total = strategy.timeout)) has not expired
read_waits ==
    /\ UNCHANGED <<ovars, service_vars>>
    /\ rd_pc = "reading"
    /\ rd_now < rd_strategy.timeout
    /\ rd_now' = rd_now + 1
    /\ UNCHANGED <<rd_pc, rd_strategy, start_time, last_chunk_time, content_chunks, rd_out>>

\* requests_engine.py 211-233: the body of the loop for one chunk; the four
\* calls of time.time() in it give the same second
chunk_received ==
    /\ UNCHANGED <<ovars, service_vars>>
    /\ rd_pc = "reading"
    /\ rd_now < rd_strategy.timeout
    /\ content_chunks < MaxChunks
    /\ LET time_since_last_chunk == rd_now - last_chunk_time' IN
       /\ content_chunks' = content_chunks + 1
       /\ last_chunk_time' = rd_now
       /\ IF rd_now - start_time > rd_strategy.max_total_time
          THEN /\ rd_pc' = "done"
               /\ rd_out' = ReadOut("complete", content_chunks + 1, "max_total_time")
          ELSE IF time_since_last_chunk > rd_strategy.activity_timeout
          THEN /\ rd_pc' = "done"
               /\ rd_out' = ReadOut("complete", content_chunks + 1, "activity_timeout")
          ELSE /\ rd_pc' = "reading"
               /\ rd_out' = rd_out
    /\ UNCHANGED <<rd_strategy, rd_now, start_time>>

\* requests_engine.py 235-239: the server ended the body, the loop is over
body_ended ==
    /\ UNCHANGED <<ovars, service_vars>>
    /\ rd_pc = "reading"
    /\ rd_now < rd_strategy.timeout
    /\ rd_pc' = "done"
    /\ rd_out' = ReadOut("complete", content_chunks, "eof")
    /\ UNCHANGED <<rd_strategy, rd_now, start_time, last_chunk_time, content_chunks>>

\* requests_engine.py 241-250, 336-357: the await of the next chunk raised,
\* asyncio.TimeoutError when the total timeout of the request expired, or a
\* connection error before: what was read is returned, or the crawl fails
read_raised(timed_out) ==
    /\ UNCHANGED <<ovars, service_vars>>
    /\ rd_pc = "reading"
    /\ timed_out <=> rd_now = rd_strategy.timeout
    /\ rd_pc' = "done"
    /\ rd_out' = ReadOut(IF content_chunks > 0 THEN "complete" ELSE "failed",
                         content_chunks,
                         IF timed_out THEN "timeout" ELSE "exception")
    /\ UNCHANGED <<rd_strategy, rd_now, start_time, last_chunk_time, content_chunks>>

ReadNext ==
    \/ \E s \in ReadStrategies, delay \in 0..1, status_ok \in BOOLEAN :
           requests_crawl(s, delay, status_ok)
    \/ read_waits
    \/ chunk_received
    \/ body_ended
    \/ \E timed_out \in BOOLEAN : read_raised(timed_out)

SpecRead == BulkInit /\ [][ReadNext]_vars

\* ================================================================ claims
\* a prefix test on sequences
IsPrefix(p, s) == Len(p) <= Len(s) /\ p = SubSeq(s, 1, Len(p))

\* the orchestrator call has an engine's crawl_with_retry in progress
InRetry == pc \in {"retry_crawl", "retry_sleep", "retry_done"}

\* C1: in crawl_with_strategy the engines are invoked one at a time in
\* engine_priority order: the engines invoked so far are the registered ones
\* among the entries looked at, which are a prefix of engine_priority; every
\* invoked engine but the one in progress has ended, none of the earlier ones
\* with status complete; once an engine returned complete the call returns
\* and no later engine is invoked.
C1_EnginesOneAtATimeInOrder ==
    (caller = "orchestrator" /\ pc \notin {"idle", "raised"}) =>
        /\ IsPrefix(attempted_engines, strategy.engine_priority)
        /\ invoked = Keep(attempted_engines, Range(engines))
        /\ Len(outcomes) = (IF InRetry THEN Len(invoked) - 1 ELSE Len(invoked))
        /\ \A k \in 1..Len(outcomes) :
              outcomes[k] = "complete" =>
                  /\ k = Len(invoked)
                  /\ pc = "returned"
                  /\ out.result.status = "complete"

\* C1 witness: the second registered engine returned complete after the first
\* failed, and engines remain in the list that were never invoked
C1_Witness ==
    /\ caller = "orchestrator" /\ pc = "returned"
    /\ outcomes = <<"failed", "complete">>
    /\ Len(Keep(strategy.engine_priority, Range(engines))) > Len(invoked)

\* C2: whenever the engine loop ends in failure, metadata.attempted_engines
\* of the returned result equals the sub-sequence of strategy.engine_priority
\* whose names are registered, for every strategy (override included).
C2_AttemptedEqualsRegistered ==
    (caller = "orchestrator" /\ pc = "returned"
        /\ out.result.metadata.all_engines_failed) =>
        out.result.metadata.attempted_engines
            = Keep(strategy.engine_priority, Range(engines))

\* C3: crawl_with_strategy never raises to its caller, in every orchestrator
\* state, and returns status failed when no engine succeeded.
C3_NeverRaises ==
    caller = "orchestrator" =>
        /\ pc # "raised"
        /\ (pc = "returned" /\ "complete" \notin Range(outcomes))
               => out.result.status = "failed"

\* C4: if URL validation rejects the URL or the engine registry is empty,
\* crawl_with_strategy returns a failed CrawlResult carrying an error and
\* never invokes an engine for that request.
C4_FailFastWithoutEngine ==
    (caller = "orchestrator" /\ pc \notin {"idle"}
        /\ (~_validate_url(url).ok \/ engines = <<>>)) =>
        /\ invoked = <<>>
        /\ ~InRetry
        /\ pc # "raised"
        /\ pc = "returned" =>
              /\ out.result.status = "failed"
              /\ out.result.error \notin {None, <<>>}

\* a CrawlResult satisfies the status/error invariant of the data model
WellFormedResult(r) ==
    /\ r.status \in {"complete", "failed"}
    /\ (r.status = "failed") <=> (r.error # None /\ r.error # <<>>)
    /\ r.status = "failed" => (r.title = "" /\ r.text = "" /\ r.hierarchy = {})

\* C5: every CrawlResult produced by crawl_with_retry or by the orchestrator
\* has status failed iff error is a non-empty string, and a failed result has
\* empty title, text and hierarchy.
C5_StatusErrorInvariant ==
    /\ (pc = "retry_done" /\ ~r_out.raised) => WellFormedResult(r_out.result)
    /\ (pc = "returned") => WellFormedResult(out.result)

\* every error text an attempt of the model can fail with
AllErrorTexts ==
    ErrorMessages \cup {ErrEngineNotInitialized, <<"[connect timeout]">>,
                        <<"[page load timeout]: ">> \o <<"T","i","m","e","o","u","t">>}

\* the texts whose lower-cased form contains a permanent-failure substring of
\* the retry policy
C6_PermanentTexts ==
    {m \in AllErrorTexts :
        \E k \in 1..Len(permanent_errors) : Contains(Lower(m), permanent_errors[k])}

\* attempt a of the current crawl_with_retry failed with error text m
AttemptFailedWith(a, m) ==
    \/ a.raised /\ a.msg = m
    \/ ~a.raised /\ a.status = "failed" /\ a.error = m

TransientTexts == {Err503, ErrReset, <<"[connect timeout]">>}

\* C7: when an engine's fetch fails transiently on every attempt, that
\* engine's crawl is attempted max_retries times before the orchestrator
\* falls back to the next engine (shipped adapters).
C7_TransientRetriedMaxRetries ==
    (caller = "orchestrator" /\ pc = "retry_done" /\ strategy.retries_is_int
        /\ attempts # <<>>
        /\ \A k \in 1..Len(attempts) :
              \E m \in TransientTexts : AttemptFailedWith(attempts[k], m)) =>
        Len(attempts) = strategy.max_retries

\* ------------------------------------------------------------ bulk jobs
\* tasks inside "async with semaphore", and those whose crawl is awaited
Holding == {t \in Tasks : t_pc[t] \in {"pub_start", "crawl", "pub_result", "pub_except"}}
InFlight == {t \in Tasks : t_pc[t] = "crawl"}

\* the size of the job's pool: request.max_concurrent on POST /crawl/bulk,
\* 3 on the unified route
PoolSize == IF route = "bulk" THEN max_concurrent ELSE UnifiedPoolSize

\* C8: in every state of a bulk job the number of URLs whose crawl is in
\* flight (and even the number of tasks inside the semaphore block) is at
\* most the size of the job's pool; while no pool exists (the job has not
\* fanned out, or asyncio.Semaphore rejected a negative max_concurrent)
\* no crawl is in flight.
C8_InFlightBounded ==
    /\ InFlight \subseteq Holding
    /\ semaphore.created =>
          /\ Cardinality(Holding) <= PoolSize
          /\ semaphore.value = PoolSize - Cardinality(Holding)
    /\ ~semaphore.created => Holding = {}

\* C8 witness: a unified job has three crawls in flight and a fourth URL
\* waiting for a permit
C8_Witness ==
    /\ route = "unified"
    /\ Cardinality(InFlight) = UnifiedPoolSize
    /\ \E t \in Tasks : t_pc[t] = "wait"

\* C9: in every state of a bulk job the counters of the job satisfy
\* completed = success + failed and 0 <= completed <= total, and no URL is
\* counted twice (the worker's completed_count never exceeds the URLs).
C9_CountersConsistent ==
    active_jobs.status # "none" =>
        /\ active_jobs.completed = active_jobs.success + active_jobs.failed
        /\ 0 <= active_jobs.completed
        /\ active_jobs.completed <= active_jobs.total_urls
        /\ completed_count <= urls_n

\* C10: for a job whose status is completed, success + failed = total =
\* len(urls), and the results list of the job and of the persisted summary
\* have exactly total entries, one per input URL.
C10_CompletedJobTotals ==
    active_jobs.status = "completed" =>
        /\ active_jobs.total_urls = urls_n
        /\ active_jobs.success + active_jobs.failed = active_jobs.total_urls
        /\ summary.written
        /\ summary.successful + summary.failed = summary.total_urls
        /\ Len(summary.results) = active_jobs.total_urls
        /\ \A t \in 1..urls_n :
              Cardinality({k \in 1..Len(summary.results) : summary.results[k].url = t}) = 1
        /\ route = "unified" => active_jobs.results = summary.results

\* C11: for the job id, every progress value published to the hub is at
\* least the progress value published before it, from the acceptance of the
\* request to the completion of the job, on both routes.
C11_ProgressNonDecreasing ==
    published.prev <= published.last

\* C12: the results list of the persisted summary is in input-URL order: its
\* i-th entry is the result of the i-th input URL, on both routes.
C12_SummaryInInputOrder ==
    summary.written =>
        \A k \in 1..Len(summary.results) : summary.results[k].url = k

\* while the worker waits for its per-URL tasks, no step fails the job
TaskNeverFailsJob ==
    (w_pc = "gather" /\ urls_n > 0) => active_jobs'.status # "failed"

\* the failed counter of a completed job counts the URLs with a failed result
FailedCountedOnce ==
    active_jobs.status = "completed" =>
        active_jobs.failed =
            Cardinality({k \in 1..Len(summary.results) :
                            summary.results[k].status = "failed"})

\* C13: a failure of an individual URL (a failed result or an exception in
\* its task, the publish of its progress included) never sets the job's
\* status to failed, and the URL is counted once, in failed.
C13_UrlFailureNeverFailsJob ==
    /\ [][TaskNeverFailsJob]_vars
    /\ []FailedCountedOnce

\* C14: a bulk worker that is over never leaves its job in the in-flight
\* status; a job it failed has end_time set and an error event was published
\* for the job id.
C14_WorkerFailureMarksJobFailed ==
    w_pc = "ended" =>
        /\ active_jobs.status \in {"completed", "failed", "none"}
        /\ active_jobs.status = "failed" =>
              /\ active_jobs.end_time
              /\ "crawling_error" \in published.types

\* every variable but active_jobs and cancel_response
AllButJobAndResponse ==
    <<ovars, route, urls_n, max_concurrent, w_pc, semaphore, completed_count,
      success_count, t_pc, t_out, t_loc, summary, active_connections,
      job_connections, pub, published, hub_hist, id_vars, req_vars,
                   read_vars>>

\* a step that answers a DELETE /jobs/{id}
CancelStep == cancel_response' # cancel_response

\* C16: DELETE /jobs/{id} removes the job iff its status is completed or
\* failed; on an in-flight job and on an unknown id it changes nothing (the
\* worker and its tasks keep their positions); 404 answers an unknown id; no
\* other step removes a job from the store.
C16_CancelRemovesFinishedOnly ==
    [][ /\ CancelStep =>
            /\ UNCHANGED AllButJobAndResponse
            /\ cancel_response' = "removed" <=>
                  (active_jobs.status \in {"completed", "failed"}
                      /\ active_jobs' = NoJob)
            /\ cancel_response' \in {"404", "in_progress"} => UNCHANGED active_jobs
            /\ cancel_response' = "in_progress" =>
                  active_jobs.status \in {"started", "processing"}
        /\ (active_jobs.status # "none" /\ active_jobs'.status = "none") =>
              (CancelStep /\ active_jobs.status \in {"completed", "failed"})
      ]_vars

\* C16 witness: a DELETE removed the finished job of a worker that wrote its
\* summary and is over
C16_Witness ==
    /\ cancel_response = "removed"
    /\ active_jobs = NoJob
    /\ w_pc = "ended"
    /\ summary.written

\* C17: a bulk job whose worker is over with status completed has published a
\* crawling_complete event for its job id, and no crawling_complete event is
\* published before the summary file is written, on both routes.
C17_CompleteEventAfterSummary ==
    /\ (w_pc = "ended" /\ active_jobs.status = "completed") =>
          "crawling_complete" \in published.types
    /\ "crawling_complete" \in published.types => summary.written

\* C15: the job ids given to the bulk requests accepted so far are pairwise
\* different, so no request's entry in the store is shared or overwritten.
C15_JobIdsUnique ==
    \A a, b \in 1..Len(issued) : a # b => issued[a] # issued[b]

\* C18: when a publish for the job is over, send_text was called for every
\* connection that was subscribed to the job and active from the start of
\* the publish on; send_text is called only for connections the hub lists as
\* subscribers of the job at that moment; no list of subscribers holds a
\* connection twice.
C18_DeliveredToSubscribers ==
    /\ ~pub[0].active =>
          \A c \in hub_targets : \E k \in 1..Len(hub_sent) : hub_sent[k].conn = c
    /\ \A k \in 1..Len(hub_sent) : hub_sent[k].subscribed
    /\ \A e \in 1..Len(job_connections) :
          \A a, b \in 1..Len(job_connections[e].conns) :
              a # b => job_connections[e].conns[a] # job_connections[e].conns[b]

\* the engine order of each site type, before registry filtering
SiteTypeOrder ==
    [complex_spa |-> <<"crawl4ai", "firecrawl", "playwright", "requests">>,
     ai_analysis_needed |-> <<"crawl4ai", "firecrawl", "playwright", "requests">>,
     anti_bot_heavy |-> <<"playwright", "firecrawl", "crawl4ai", "requests">>,
     standard_dynamic |-> <<"playwright", "crawl4ai", "firecrawl", "requests">>,
     simple_static |-> <<"requests", "crawl4ai", "firecrawl", "playwright">>]

\* C19: whenever the orchestrator works with a strategy it built for a site
\* type (from the analyzer or from the fallback heuristic), the engines it
\* tries are those of the order of that site type, registry-filtered; the
\* strategy table holds these orders.
C19_EngineOrderPerSiteType ==
    /\ \A t \in DOMAIN SiteTypeOrder :
          <<crawler_strategies[t].primary>> \o crawler_strategies[t].fallback
              = SiteTypeOrder[t]
    /\ (caller = "orchestrator" /\ analysis_result.present
            /\ analysis_result.strategy_type \in DOMAIN SiteTypeOrder
            /\ engines = EngineNames) =>
          strategy.engine_priority = SiteTypeOrder[analysis_result.strategy_type]

\* C20: get_strategy_config returns a non-empty engine_priority for every
\* site-type string and every registry start-up can produce, and answers an
\* unknown site type as it answers simple_static.
C20_StrategyBuilderTotal ==
    (caller = "config" /\ pc = "config") =>
        /\ strategy.engine_priority # <<>>
        /\ analysis_result.strategy_type \notin DOMAIN crawler_strategies =>
              strategy = get_strategy_config("simple_static", engines)

\* the engines a strategy is built from, in the order they are listed: the
\* recommended engine followed by the fallback engines
ListedEngines ==
    IF caller = "config"
    THEN LET t == IF analysis_result.strategy_type \in DOMAIN crawler_strategies
                  THEN analysis_result.strategy_type ELSE "simple_static"
         IN  <<crawler_strategies[t].primary>> \o crawler_strategies[t].fallback
    ELSE <<analysis_result.recommended_engine>> \o analysis_result.fallback_engines

\* position of the first occurrence of x in s
FirstPos(s, x) == CHOOSE i \in 1..Len(s) : s[i] = x /\ \A k \in 1..(i - 1) : s[k] # x

\* a strategy was built from a list of engines: by crawl_with_strategy from
\* an analysis, or by get_strategy_config
StrategyBuilt ==
    \/ caller = "orchestrator" /\ analysis_result.present
    \/ caller = "config" /\ pc = "config"

\* C21: the engine_priority built for a crawl holds exactly the listed
\* (recommended, then fallback) engines that are registered, each once, in
\* the order of the list; if no listed engine is registered it is the whole
\* registry in registration order.
C21_PriorityIsRegisteredSublist ==
    StrategyBuilt =>
        LET p == strategy.engine_priority
            common == Range(ListedEngines) \cap Range(engines)
        IN  IF common = {} THEN p = engines
            ELSE /\ Range(p) = common
                 /\ \A i, j \in 1..Len(p) :
                       i < j => FirstPos(ListedEngines, p[i]) < FirstPos(ListedEngines, p[j])

\* C21 witness: a crawl whose analysis lists only engines that failed to
\* initialise works with the whole (non-empty) registry
C21_Witness ==
    /\ caller = "orchestrator" /\ analysis_result.present /\ pc = "loop"
    /\ Range(ListedEngines) \cap Range(engines) = {}
    /\ engines # <<>>
    /\ strategy.engine_priority = engines

\* C22: if the analyzer's sample fetch for the URL failed, the orchestrator
\* works with the analysis and the strategy of the heuristic fallback, marked
\* is_fallback.
C22_FailedSampleFetchUsesFallback ==
    (caller = "orchestrator" /\ sample_fetch = "failed") =>
        /\ analysis_result = _get_fallback_strategy(url)
        /\ analysis_result.is_fallback
        /\ strategy = BuildStrategy(_get_fallback_strategy(url), engines)

\* the analysis of the call came from the heuristic fallback (the analyzer
\* was not reached) or from the analyzer
ByFallback == analysis_result.present /\ sample_fetch = "none"
ByAnalyzer == analysis_result.present /\ sample_fetch # "none"

\* C23: a complete result of a crawl whose strategy came from the heuristic
\* fallback carries mcp_analysis.is_fallback = true, the fallback
\* analysis_method and confidence 0; one whose strategy came from the
\* analyzer carries the AI analysis_method; at whatever engine index the
\* crawl succeeded.
C23_FallbackMarkerForwarded ==
    (caller = "orchestrator" /\ pc = "returned" /\ out.result.status = "complete") =>
        /\ ByFallback =>
              /\ out.result.metadata.is_fallback
              /\ out.result.metadata.analysis_method = "fallback_strategy"
              /\ out.result.metadata.confidence = <<0>>
        /\ ByAnalyzer =>
              /\ ~out.result.metadata.is_fallback
              /\ out.result.metadata.analysis_method = "mcp_ai_analysis"

\* C23 witness: a crawl with a fallback strategy succeeded at its second
\* engine
C23_Witness ==
    /\ caller = "orchestrator" /\ pc = "returned" /\ out.result.status = "complete"
    /\ ByFallback
    /\ out.result.metadata.successful_engine_index = 2
    /\ out.result.metadata.is_fallback

\* the type the decision table gives a text: by the number of distinct URLs
\* extracted, the presence of a word of the extraction vocabulary (dict key or
\* synonym), and the presence of a platform together with a search verb
TableType(text) ==
    LET n == Cardinality(extract_urls(text))
        keyword == \E k \in 1..Len(content_type_patterns) :
                      \E j \in 1..Len(content_type_patterns[k]) :
                          Contains(text, content_type_patterns[k][j])
        platform_and_verb == /\ \E w \in platform_keywords : Contains(text, w)
                             /\ \E w \in search_keywords : Contains(text, w)
    IN  IF n = 0 THEN (IF platform_and_verb THEN "search" ELSE "invalid")
        ELSE IF n = 1 THEN (IF keyword THEN "selective" ELSE "single")
        ELSE (IF keyword THEN "bulk_selective" ELSE "bulk")

\* C24: analyze_unified_intent decides request_type by the table of (number
\* of distinct URLs, extraction keyword or synonym present, platform and
\* search verb present): 0 URLs give search or invalid, 1 URL selective or
\* single with confidence 0.9, 2 or more bulk_selective or bulk with
\* confidence 0.8; the confidence lies within [0, 1].
C24_IntentFollowsTable ==
    intent # NoIntent =>
        /\ intent.request_type = TableType(request_text)
        /\ intent.request_type = "single" => intent.confidence = 90
        /\ intent.request_type = "bulk" => intent.confidence = 80
        /\ intent.confidence \in 0..100

\* the handler of POST /crawl/unified is past its two progress events
UnifiedDispatched == w_pc \notin {"idle", "pub_analyzing", "pub_routing"}

\* C25: a request classified as search or as bulk_selective is answered with
\* HTTP 501, and no crawl is started and no Job entry created for it.
C25_SearchAndBulkSelectiveNotImplemented ==
    (intent.request_type \in {"search", "bulk_selective"} /\ UnifiedDispatched) =>
        /\ w_pc \in {"pub_not_implemented", "not_implemented"}
        /\ active_jobs = NoJob
        /\ \A t \in Tasks : t_pc[t] = "none"

\* C26: in the read loop of the HTTP adapter the inactivity clock restarts
\* with each chunk, and a read during which the server is silent for longer
\* than activity_timeout is aborted once the silence exceeds activity_timeout
\* (here: before it reaches twice that time), whatever the connection
\* timeout and max_total_time are.
C26_SilentReadAborted ==
    rd_pc = "reading" => rd_now - last_chunk_time <= 2 * rd_strategy.activity_timeout

\* C27: for max_retries >= 1 crawl_with_retry invokes crawl at most
\* max_retries times; a raised transient failure of attempt k (counted from
\* 0) that is not the last attempt is followed by a sleep of wait_time * 2^k
\* and then by the next attempt; no sleep follows the final attempt; and when
\* every attempt raised, a failed CrawlResult carrying the last error is
\* returned instead of an exception.
C27_BoundedAttemptsExponentialBackoff ==
    (InRetry /\ strategy.retries_is_int /\ strategy.max_retries >= 1) =>
        /\ Len(attempts) <= strategy.max_retries
        /\ \A k \in 1..Len(sleeps) :
              /\ sleeps[k] = strategy.wait_time * (2 ^ (k - 1))
              /\ attempts[k].raised /\ ~is_permanent(attempts[k].msg)
        /\ Len(sleeps) = (IF pc = "retry_done" THEN Len(attempts) - 1 ELSE Len(attempts))
        /\ pc = "retry_crawl" => attempt = Len(attempts)
        /\ (pc = "retry_done" /\ \A k \in 1..Len(attempts) : attempts[k].raised) =>
              /\ ~r_out.raised
              /\ r_out.result.status = "failed"
              /\ r_out.result.error = attempts[Len(attempts)].msg

\* C27 witness: three attempts raised a transient error with max_retries 3;
\* the sleeps were wait_time and twice wait_time, none after the last
\* attempt, and the failed result was returned
C27_Witness ==
    /\ pc = "retry_done"
    /\ strategy.max_retries = 3
    /\ Len(attempts) = 3
    /\ \A k \in 1..3 : attempts[k].raised
    /\ sleeps = <<strategy.wait_time, 2 * strategy.wait_time>>
    /\ ~r_out.raised /\ r_out.result.status = "failed"

\* C28: a publish for a job never raises into its publisher, whatever
\* disconnect and subscribe_to_job do to the job's subscriber list while a
\* send of the publish is awaited (a disconnect that empties and deletes the
\* list included), and every other subscriber of the job is still attempted.
C28_PublishNeverRaises ==
    /\ ~hub_raised
    /\ ~pub[0].active =>
          \A c \in hub_targets : \E k \in 1..Len(hub_sent) : hub_sent[k].conn = c

\* the subscriber list of job j, empty when the hub has no entry for j
Subscribers(jc, j) == IF HasJob(jc, j) THEN JobList(jc, j) ELSE <<>>

\* C29: a step in which connection c is disconnected leaves c in no job's
\* subscriber list, to however many jobs c was subscribed, and leaves the
\* other subscribers of every job as they were.
C29_DisconnectRemovesEverywhere ==
    [][\A c \in HubConns :
          (c \in active_connections /\ c \notin active_connections') =>
              \A j \in JobIds :
                  /\ c \notin Range(Subscribers(job_connections', j))
                  /\ Subscribers(job_connections', j)
                        = Keep(Subscribers(job_connections, j),
                               Range(Subscribers(job_connections, j)) \ {c})]_vars

\* C30: every accepted bulk job eventually has status completed or failed,
\* for every number of URLs (none included) and every max_concurrent (0 and
\* negative values included), when every crawl and every publish ends
\* (a job whose service is shut down meanwhile is left aside here).
C30_AcceptedJobEnds ==
    (w_pc = "scheduled")
        ~> (active_jobs.status \in {"completed", "failed"} \/ ~is_initialized)

====
